---- MODULE Spec2Model ----
(***************************************************************************)
(* A model of the rule-based chatbot SimpleChatbot (SimpleChatbot.py): the *)
(* durable store (patterns and conversations tables), the per-instance     *)
(* history ring, the command layer of get_response, the matcher and the    *)
(* arithmetic evaluator.                                                   *)
(*                                                                         *)
(* Text.  A Python str is modelled by its sequence of characters.  The     *)
(* literals the model uses are named by TLA+ strings and spelled out by    *)
(* Chars; lower(), strip(), `in` and the regular expressions work on the   *)
(* characters.  A str built by formatting (a response) is a sequence of    *)
(* pieces, in order; its text is the concatenation of the pieces.          *)
(*                                                                         *)
(* Numbers.  A weight or confidence is kept in tenths (1.0 is 10, 0.1 is   *)
(* 1, 2.0 is 20).  A float of the evaluator is an exact fraction: the      *)
(* rounding of binary floating point (.1*.1 is 0.010000000000000002) and   *)
(* integers beyond the range of TLC are not modelled.                      *)
(*                                                                         *)
(* Evaluation.  CHOOSE r \in {e(x) : x \in {v}} : TRUE is e(v) with v       *)
(* computed once; it is used where a result is read several times.         *)
(*                                                                         *)
(* Storage.  A statement fails on a text it cannot bind (a str with a      *)
(* surrogate code point).  In SpecFault the store is out of order during   *)
(* some calls (a lock held past the timeout, an I/O error) and every       *)
(* statement of such a call raises; in the other specifications the store  *)
(* works.                                                                  *)
(*                                                                         *)
(* Specifications.  Spec: several objects on one store, constructors and   *)
(* calls one after another.  SpecTalk: one object, a short conversation    *)
(* over every kind of message.  SpecRing: one object, a conversation long  *)
(* enough to fill the ring.  SpecRace: constructors that interleave.       *)
(* SpecConc: calls that interleave, on one object or on several.           *)
(* SpecShared: calls that interleave on one object, none of them a         *)
(* command.  SpecStats: two objects, a few messages and the statistics.    *)
(* SpecFault: one object and a store that fails.  SpecMath: handle_math on *)
(* arithmetic terms and on short texts.  SpecMatch: one object, messages   *)
(* that match several patterns.  SpecSeed: constructors that interleave    *)
(* and a short conversation.  SpecSnap: the statistics read while other    *)
(* calls write to the log.                                                 *)
(***************************************************************************)
EXTENDS Integers, Sequences, FiniteSets, TLC

VARIABLES
  patternsTable,   \* rows of the patterns table of the store, in rowid order
  conversations,   \* rows of the conversations table of the store, in rowid order
  bots,            \* per SimpleChatbot object: construction state, self.patterns, self.conversation_history
  calls            \* per caller: the get_response call in progress or last returned

vars == <<patternsTable, conversations, bots, calls>>

----------------------------------------------------------------------------
(* Bounds of the model *)

NumBots == 2          \* SimpleChatbot objects sharing the store
NumCallers == 2       \* concurrent callers
MaxLog == 2           \* rows of the conversations table in the general specification
MaxTalkLog == 3       \* rows of the conversations table in the talk specification
MaxRingLog == 22      \* rows of the conversations table in the ring specification
MaxVaried == 1        \* rows of the ring specification whose input is not the filler message
MaxStatsLog == 3      \* rows of the conversations table in the statistics specification
MaxFaultLog == 2      \* rows of the conversations table in the fault specification
MaxNum == 4           \* the numbers of the expressions are the squares of 0..MaxNum
MaxTextLen == 4       \* characters of a text given to handle_math
MaxMathLog == 2       \* rows of the conversations table in the evaluator specification
MaxMatchLog == 2      \* rows of the conversations table in the matcher specification
MaxSnapLog == 2       \* rows of the conversations table in the snapshot specification
MaxSeedLog == 1       \* rows of the conversations table in the seeding specification
MaxConcLog == 2       \* rows that concurrent calls add to the conversations table

(* Program constants *)

HistoryLimit == 20    \* get_response keeps the last 20 exchanges
HistoryShown == 3     \* the history command shows the last 3
SeedCount == 13       \* rows of initial_patterns

Bots == 1..NumBots
Callers == 1..NumCallers

----------------------------------------------------------------------------
(* Text *)

Chars ==
   ("" :> <<>>) @@
   ("  " :> <<" "," ">>) @@
   ("hi" :> <<"h","i">>) @@
   ("Hi" :> <<"H","i">>) @@
   ("xyz" :> <<"x","y","z">>) @@
   ("2+3" :> <<"2","+","3">>) @@
   ("time now" :> <<"t","i","m","e"," ","n","o","w">>) @@
   ("today" :> <<"t","o","d","a","y">>) @@
   ("thanks hi" :> <<"t","h","a","n","k","s"," ","h","i">>) @@
   ("chat history" :> <<"c","h","a","t"," ","h","i","s","t","o","r","y">>) @@
   ("Conversation History" :> <<"C","o","n","v","e","r","s","a","t","i","o","n"," ","H","i","s","t","o","r","y">>) @@
   ("clear history" :> <<"c","l","e","a","r"," ","h","i","s","t","o","r","y">>) @@
   ("chat history clear history" :> <<"c","h","a","t"," ","h","i","s","t","o","r","y"," ","c","l","e","a","r"," ","h","i","s","t","o","r","y">>) @@
   ("clear history stats" :> <<"c","l","e","a","r"," ","h","i","s","t","o","r","y"," ","s","t","a","t","s">>) @@
   ("stats" :> <<"s","t","a","t","s">>) @@
   ("Statistics" :> <<"S","t","a","t","i","s","t","i","c","s">>) @@
   ("stats 2+3" :> <<"s","t","a","t","s"," ","2","+","3">>) @@
   ("\\ud800" :> <<"\\ud800">>) @@
   ("Clear History today" :> <<"C","l","e","a","r"," ","H","i","s","t","o","r","y"," ","t","o","d","a","y">>) @@
   ("STATS time now" :> <<"S","T","A","T","S"," ","t","i","m","e"," ","n","o","w">>) @@
   ("bye thanks" :> <<"b","y","e"," ","t","h","a","n","k","s">>) @@
   ("thanks today" :> <<"t","h","a","n","k","s"," ","t","o","d","a","y">>) @@
   ("today 2+3" :> <<"t","o","d","a","y"," ","2","+","3">>) @@
   ("today time now" :> <<"t","o","d","a","y"," ","t","i","m","e"," ","n","o","w">>) @@
   ("1+2**3" :> <<"1","+","2","*","*","3">>) @@
   ("What is 2 + 3?" :> <<"W","h","a","t"," ","i","s"," ","2"," ","+"," ","3","?">>) @@
   ("What is 15 + 27?" :> <<"W","h","a","t"," ","i","s"," ","1","5"," ","+"," ","2","7","?">>) @@
   ("what is 5 + 3 * 2?" :> <<"w","h","a","t"," ","i","s"," ","5"," ","+"," ","3"," ","*"," ","2","?">>) @@
   ("2 + 3" :> <<"2"," ","+"," ","3">>) @@
   ("5 / 0" :> <<"5"," ","/"," ","0">>) @@
   ("(2+3" :> <<"(","2","+","3">>) @@
   ("conversation history" :> <<"c","o","n","v","e","r","s","a","t","i","o","n"," ","h","i","s","t","o","r","y">>) @@
   ("statistics" :> <<"s","t","a","t","i","s","t","i","c","s">>) @@
   ("hello" :> <<"h","e","l","l","o">>) @@
   ("hey" :> <<"h","e","y">>) @@
   ("good morning" :> <<"g","o","o","d"," ","m","o","r","n","i","n","g">>) @@
   ("good afternoon" :> <<"g","o","o","d"," ","a","f","t","e","r","n","o","o","n">>) @@
   ("good evening" :> <<"g","o","o","d"," ","e","v","e","n","i","n","g">>) @@
   ("how are you" :> <<"h","o","w"," ","a","r","e"," ","y","o","u">>) @@
   ("how do you do" :> <<"h","o","w"," ","d","o"," ","y","o","u"," ","d","o">>) @@
   ("what are you" :> <<"w","h","a","t"," ","a","r","e"," ","y","o","u">>) @@
   ("who are you" :> <<"w","h","o"," ","a","r","e"," ","y","o","u">>) @@
   ("what is your name" :> <<"w","h","a","t"," ","i","s"," ","y","o","u","r"," ","n","a","m","e">>) @@
   ("what can you do" :> <<"w","h","a","t"," ","c","a","n"," ","y","o","u"," ","d","o">>) @@
   ("what are your capabilities" :> <<"w","h","a","t"," ","a","r","e"," ","y","o","u","r"," ","c","a","p","a","b","i","l","i","t","i","e","s">>) @@
   ("what time" :> <<"w","h","a","t"," ","t","i","m","e">>) @@
   ("current time" :> <<"c","u","r","r","e","n","t"," ","t","i","m","e">>) @@
   ("what date" :> <<"w","h","a","t"," ","d","a","t","e">>) @@
   ("current date" :> <<"c","u","r","r","e","n","t"," ","d","a","t","e">>) @@
   ("thank you" :> <<"t","h","a","n","k"," ","y","o","u">>) @@
   ("thanks" :> <<"t","h","a","n","k","s">>) @@
   ("goodbye" :> <<"g","o","o","d","b","y","e">>) @@
   ("bye" :> <<"b","y","e">>) @@
   ("see you" :> <<"s","e","e"," ","y","o","u">>) @@
   ("farewell" :> <<"f","a","r","e","w","e","l","l">>) @@
   ("help" :> <<"h","e","l","p">>) @@
   ("assistance" :> <<"a","s","s","i","s","t","a","n","c","e">>) @@
   ("tell me a joke" :> <<"t","e","l","l"," ","m","e"," ","a"," ","j","o","k","e">>) @@
   ("joke" :> <<"j","o","k","e">>) @@
   ("funny" :> <<"f","u","n","n","y">>) @@
   ("how old are you" :> <<"h","o","w"," ","o","l","d"," ","a","r","e"," ","y","o","u">>)

UpperToLower ==
   ("A" :> "a") @@ ("B" :> "b") @@ ("C" :> "c") @@ ("D" :> "d") @@ ("E" :> "e") @@
   ("F" :> "f") @@ ("G" :> "g") @@ ("H" :> "h") @@ ("I" :> "i") @@ ("J" :> "j") @@
   ("K" :> "k") @@ ("L" :> "l") @@ ("M" :> "m") @@ ("N" :> "n") @@ ("O" :> "o") @@
   ("P" :> "p") @@ ("Q" :> "q") @@ ("R" :> "r") @@ ("S" :> "s") @@ ("T" :> "t") @@
   ("U" :> "u") @@ ("V" :> "v") @@ ("W" :> "w") @@ ("X" :> "x") @@ ("Y" :> "y") @@
   ("Z" :> "z")

\* str.lower()
StrLower(s) ==
  [i \in 1..Len(s) |-> IF s[i] \in DOMAIN UpperToLower THEN UpperToLower[s[i]] ELSE s[i]]

\* what str.strip() and the regular expression class \s take for whitespace
IsSpace(c) == c \in {" ", "\t", "\n", "\r"}

\* the digits of a number in Python source text
IsDecimalDigit(c) == c \in {"0", "1", "2", "3", "4", "5", "6", "7", "8", "9"}

\* \d of a str pattern: the decimal digits of every script, of which the
\* model has the ASCII ones and ARABIC-INDIC DIGIT THREE ("\\u0663" is one
\* character, named by its escape)
IsDigit(c) == IsDecimalDigit(c) \/ c = "\\u0663"

IsOperator(c) == c \in {"+", "-", "*", "/"}

\* str.strip()
StrStrip(s) ==
  LET inked == {i \in 1..Len(s) : ~IsSpace(s[i])}
  IN  IF inked = {} THEN <<>>
      ELSE LET first == CHOOSE i \in inked : \A j \in inked : i <= j
               last  == CHOOSE i \in inked : \A j \in inked : j <= i
           IN  SubSeq(s, first, last)

\* sub in s
Contains(sub, s) ==
  \E i \in 0..(Len(s) - Len(sub)) : SubSeq(s, i + 1, i + Len(sub)) = sub

----------------------------------------------------------------------------
(* The pattern store *)

\* A regular expression of the seed list, by its shape: an alternation of
\* literals, the digit-operator-digit expression, or ".*".
Alt(alts) == [kind |-> "alt", alts |-> alts]
MathRe == [kind |-> "math", alts |-> <<>>]
AnyRe == [kind |-> "any", alts |-> <<>>]

Row(p, r, c, w) == [pattern |-> p, response |-> r, category |-> c, weight |-> w]

\* initial_patterns, in the order of registration
InitialPatterns == <<
  Row(Alt(<<"hello", "hi", "hey", "good morning", "good afternoon", "good evening">>),
      "Hello! How can I help you today?", "greeting", 10),
  Row(Alt(<<"how are you", "how do you do">>),
      "I'm doing well, thank you for asking! How are you?", "greeting", 10),
  Row(Alt(<<"what are you", "who are you", "what is your name">>),
      "I'm a simple non-LLM chatbot built with Python. I use pattern matching and rule-based responses!",
      "identity", 10),
  Row(Alt(<<"what can you do", "what are your capabilities">>),
      "I can have conversations, answer basic questions, do simple math, tell time, and learn from our chats!",
      "capabilities", 10),
  Row(MathRe, "", "math", 20),
  Row(Alt(<<"what time", "current time", "time now">>), "", "time", 20),
  Row(Alt(<<"what date", "current date", "today">>), "", "date", 20),
  Row(Alt(<<"thank you", "thanks">>),
      "You're welcome! Is there anything else I can help you with?", "gratitude", 10),
  Row(Alt(<<"goodbye", "bye", "see you", "farewell">>),
      "Goodbye! It was nice chatting with you. Come back anytime!", "farewell", 10),
  Row(Alt(<<"help", "assistance">>),
      "I'm here to help! You can ask me questions, chat with me, or ask me to solve simple math problems.",
      "help", 10),
  Row(Alt(<<"tell me a joke", "joke", "funny">>),
      "Why don't scientists trust atoms? Because they make up everything!",  \* and an emoji
      "humor", 10),
  Row(Alt(<<"how old are you">>),
      "I was just created, so I'm practically a newborn in AI years!", "age", 10),
  Row(AnyRe,
      "I understand you're trying to tell me something, but I'm not quite sure how to respond. Could you try rephrasing?",
      "fallback", 1) >>

\* a check that finds every table empty
AlwaysEmpty(table) == TRUE

\* is_database_empty: SELECT COUNT(*) FROM patterns is 0
IsDatabaseEmpty(table) == Len(table) = 0

\* a seeding that commits without the last row of the list
LoadInitialPatternsCut(table) == table \o SubSeq(InitialPatterns, 1, SeedCount - 1)

\* load_initial_patterns: the inserts of one transaction, as committed
LoadInitialPatterns(table) == table \o InitialPatterns

\* an ordering by falling weight that puts the newest row of a weight first
OrderByWeightDescNewestFirst(table) ==
  LET n == Len(table)
      before(i, j) == \/ table[i].weight > table[j].weight
                      \/ table[i].weight = table[j].weight /\ i > j
      rank(j) == Cardinality({i \in 1..n : before(i, j)})
  IN  [r \in 1..n |-> table[CHOOSE j \in 1..n : rank(j) = r - 1]]

\* SELECT ... ORDER BY weight DESC: the rows by falling weight, rows of one
\* weight in rowid order
RECURSIVE OrderByWeightDesc(_)
OrderByWeightDesc(table) ==
  LET n == Len(table)
      before(i, j) == \/ table[i].weight > table[j].weight
                      \/ table[i].weight = table[j].weight /\ i < j
      rank(j) == Cardinality({i \in 1..n : before(i, j)})
  IN  [r \in 1..n |-> table[CHOOSE j \in 1..n : rank(j) = r - 1]]

\* a load that leaves out the rows of a weight below 1.0
LoadResponsesWeighty(table) ==
  OrderByWeightDesc(SelectSeq(table, LAMBDA row : row.weight >= 10))

\* load_responses: self.patterns
LoadResponses(table) == OrderByWeightDesc(table)

\* pattern.search(text) for \d+\s*[+\-*/]\s*\d+ between two .* : a digit,
\* whitespace, an operator, whitespace, a digit
SearchMath(text) ==
  \E a \in 1..Len(text) : \E o \in (a + 1)..Len(text) : \E b \in (o + 1)..Len(text) :
    /\ IsDigit(text[a]) /\ IsOperator(text[o]) /\ IsDigit(text[b])
    /\ \A k \in (a + 1)..(o - 1) : IsSpace(text[k])
    /\ \A k \in (o + 1)..(b - 1) : IsSpace(text[k])

\* pattern.search(text), the pattern compiled with re.IGNORECASE
Search(pattern, text) ==
  CASE pattern.kind = "alt" ->
         \E k \in 1..Len(pattern.alts) :
           Contains(StrLower(Chars[pattern.alts[k]]), StrLower(text))
    [] pattern.kind = "math" -> SearchMath(text)
    [] pattern.kind = "any" -> TRUE

----------------------------------------------------------------------------
(* The arithmetic evaluator: eval() of a str over 0-9 + - * / ( ) .        *)
(*                                                                         *)
(* A value is an int, a float (the fraction n/d in lowest terms, d > 0),   *)
(* the empty tuple "()" or Ellipsis "..."; an evaluation that raises gives *)
(* "zerodiv" (ZeroDivisionError) or "error" (any other exception).  A str  *)
(* that is no expression (SyntaxError) gives "error".                      *)

Val(t, n, d) == [t |-> t, n |-> n, d |-> d]
IntV(n) == Val("int", n, 1)
TupleV == Val("tuple", 0, 1)
EllipsisV == Val("ellipsis", 0, 1)
ZeroDiv == Val("zerodiv", 0, 1)
Error == Val("error", 0, 1)

IsNumber(v) == v.t \in {"int", "float"}
Raised(v) == v.t \in {"zerodiv", "error"}

Abs(n) == IF n < 0 THEN -n ELSE n

RECURSIVE Gcd(_, _)
Gcd(a, b) == IF b = 0 THEN a ELSE Gcd(b, a % b)

\* the float n/d in lowest terms; a zero keeps its sign, -0.0 being 0/-1
FloatV(n, d) ==
  LET g == Gcd(Abs(n), Abs(d))
      s == IF d < 0 THEN -1 ELSE 1
  IN  IF n = 0 THEN Val("float", 0, s)
      ELSE Val("float", s * (n \div g), s * (Abs(d) \div g))

\* -1 for a negative number and for -0.0
Sign(v) == IF v.n < 0 \/ (v.n = 0 /\ v.d < 0) THEN -1 ELSE 1

DigitValue(c) ==
  CASE c = "0" -> 0 [] c = "1" -> 1 [] c = "2" -> 2 [] c = "3" -> 3 [] c = "4" -> 4
    [] c = "5" -> 5 [] c = "6" -> 6 [] c = "7" -> 7 [] c = "8" -> 8 [] c = "9" -> 9

\* the number written by the digits s[a..b] (0 when there is none)
RECURSIVE DigitsValue(_, _, _)
DigitsValue(s, a, b) ==
  IF b < a THEN 0 ELSE 10 * DigitsValue(s, a, b - 1) + DigitValue(s[b])

RECURSIVE Pow(_, _)
Pow(b, e) == IF e = 0 THEN 1 ELSE b * Pow(b, e - 1)

\* the end of the run of digits that starts at i (i - 1 when there is none)
RECURSIVE DigitsEnd(_, _)
DigitsEnd(s, i) ==
  IF i <= Len(s) /\ IsDecimalDigit(s[i]) THEN DigitsEnd(s, i + 1) ELSE i - 1

Tok(k, v) == [k |-> k, v |-> v]

Lexed(tok, next) == [tok |-> tok, next |-> next]

\* The token that starts at s[i] and the place of the next one: "num" with
\* its value, the operators "+" "-" "*" "/" "**" "//" "(" ")", "..." and
\* "bad" for text that is no token ("." alone, an integer with a leading
\* zero).  e1 is the end of the integer part, e2 the end of the fraction.
NextToken(s, i) ==
  LET c == s[i]
      e1 == DigitsEnd(s, i)
      dot == e1 + 1 <= Len(s) /\ s[e1 + 1] = "."
      e2 == IF dot THEN DigitsEnd(s, e1 + 2) ELSE e1
      whole == DigitsValue(s, i, e1)
      frac == DigitsValue(s, e1 + 2, e2)
      scale == Pow(10, e2 - e1 - 1)
      two(x) == i + 1 <= Len(s) /\ s[i + 1] = x
  IN  CASE IsDecimalDigit(c) /\ ~dot ->
             Lexed(IF c = "0" /\ whole # 0 THEN Tok("bad", Error) ELSE Tok("num", IntV(whole)),
                   e1 + 1)
        [] IsDecimalDigit(c) /\ dot ->
             Lexed(Tok("num", FloatV(whole * scale + frac, scale)), e2 + 1)
        [] c = "." /\ e2 > i ->
             Lexed(Tok("num", FloatV(frac, scale)), e2 + 1)
        [] c = "." /\ e2 = i ->
             IF two(".") /\ i + 2 <= Len(s) /\ s[i + 2] = "."
               THEN Lexed(Tok("...", EllipsisV), i + 3)
               ELSE Lexed(Tok("bad", Error), i + 1)
        [] c = "*" -> IF two("*") THEN Lexed(Tok("**", Error), i + 2)
                      ELSE Lexed(Tok("*", Error), i + 1)
        [] c = "/" -> IF two("/") THEN Lexed(Tok("//", Error), i + 2)
                      ELSE Lexed(Tok("/", Error), i + 1)
        [] OTHER -> Lexed(Tok(c, Error), i + 1)

\* the tokens of s from s[i] on, left to right
RECURSIVE Tokenize(_, _)
Tokenize(s, i) ==
  IF i > Len(s) THEN <<>>
  ELSE CHOOSE toks \in {<<t.tok>> \o Tokenize(s, t.next) : t \in {NextToken(s, i)}} : TRUE

\* a float the model does not compute (an irrational or complex power)
Approx == Val("approx", 0, 1)

IsFloat(v) == v.t \in {"float", "approx"}

\* floor(a / b) for b # 0
FloorDiv(a, b) == IF b > 0 THEN a \div b ELSE (-a) \div (-b)

\* int or float result of an operation on two numbers, by Python's coercion
Num(l, r, n, d) ==
  IF l.t = "approx" \/ r.t = "approx" THEN Approx
  ELSE IF l.t = "int" /\ r.t = "int" THEN IntV(IF d < 0 THEN (-n) \div (-d) ELSE n \div d)
  ELSE FloatV(n, d)

PowOp(l, r) ==
  CASE l.t = "approx" \/ r.t = "approx" -> Approx
    [] r.d # 1 ->                                   \* a fractional exponent
         IF l.n = 0 THEN (IF r.n > 0 THEN FloatV(0, 1) ELSE ZeroDiv)
         ELSE IF l.n = l.d THEN FloatV(1, 1) ELSE Approx
    [] r.d = 1 /\ r.n >= 0 ->
         IF l.t = "int" /\ r.t = "int" THEN IntV(Pow(l.n, r.n))
         ELSE FloatV(Pow(l.n, r.n), Pow(l.d, r.n))
    [] r.d = 1 /\ r.n < 0 ->
         IF l.n = 0 THEN ZeroDiv ELSE FloatV(Pow(l.d, -r.n), Pow(l.n, -r.n))

\* l op r for two values
Apply(op, l, r) ==
  IF IsNumber(l) \/ IsFloat(l) THEN
    IF ~(IsNumber(r) \/ IsFloat(r)) THEN
      (IF op = "*" /\ l.t = "int" /\ r.t = "tuple" THEN TupleV ELSE Error)
    ELSE
      CASE op = "+" -> IF l.n = 0 /\ r.n = 0
                         THEN Num(l, r, 0, IF Sign(l) < 0 /\ Sign(r) < 0 THEN -1 ELSE 1)
                         ELSE Num(l, r, l.n * Abs(r.d) + r.n * Abs(l.d), Abs(l.d * r.d))
        [] op = "-" -> IF l.n = 0 /\ r.n = 0
                         THEN Num(l, r, 0, IF Sign(l) < 0 /\ Sign(r) > 0 THEN -1 ELSE 1)
                         ELSE Num(l, r, l.n * Abs(r.d) - r.n * Abs(l.d), Abs(l.d * r.d))
        [] op = "*" -> IF l.n = 0 \/ r.n = 0
                         THEN Num(l, r, 0, Sign(l) * Sign(r))
                         ELSE Num(l, r, l.n * r.n, l.d * r.d)
        [] op = "/" -> IF r.t # "approx" /\ r.n = 0 THEN ZeroDiv
                       ELSE IF l.t = "approx" \/ r.t = "approx" THEN Approx
                       ELSE FloatV(l.n * r.d, l.d * r.n)
        [] op = "//" -> IF r.t # "approx" /\ r.n = 0 THEN ZeroDiv
                        ELSE IF l.t = "approx" \/ r.t = "approx" THEN Approx
                        ELSE IF l.t = "int" /\ r.t = "int" THEN IntV(FloorDiv(l.n, r.n))
                        ELSE IF FloorDiv(l.n * r.d, l.d * r.n) = 0
                          THEN FloatV(0, Sign(l) * Sign(r))
                        ELSE FloatV(FloorDiv(l.n * r.d, l.d * r.n), 1)
        [] op = "**" -> PowOp(l, r)
  ELSE IF l.t = "tuple" THEN
    CASE op = "+" /\ r.t = "tuple" -> TupleV
      [] op = "*" /\ r.t = "int" -> TupleV
      [] OTHER -> Error
  ELSE Error

\* operands are evaluated left to right, and the first exception wins
Bin(op, l, r) == IF Raised(l) THEN l ELSE IF Raised(r) THEN r ELSE Apply(op, l, r)

Unary(op, v) ==
  IF Raised(v) THEN v
  ELSE IF v.t = "approx" THEN Approx
  ELSE IF ~IsNumber(v) THEN Error
  ELSE IF op = "-" THEN (IF v.t = "float" /\ v.n = 0 THEN Val(v.t, 0, -v.d)
                         ELSE Val(v.t, -v.n, v.d))
  ELSE v

\* f(args): no value of these expressions is callable
CallOp(f, arg) == IF Raised(f) THEN f ELSE IF Raised(arg) THEN arg ELSE Error

Parsed(pos, v) == [ok |-> TRUE, pos |-> pos, v |-> v]
NoParse == [ok |-> FALSE, pos |-> 0, v |-> Error]

Is(toks, p, k) == p <= Len(toks) /\ toks[p].k = k

RECURSIVE ParseArith(_, _), ArithRest(_, _), ParseTerm(_, _), TermRest(_, _), ParseFactor(_, _), ParsePower(_, _), PowerRest(_, _), ParsePrimary(_, _), Trailers(_, _), ParseAtom(_, _)

\* atom: NUMBER | "..." | "(" ")" | "(" arith ")"
ParseAtom(toks, p) ==
  CASE Is(toks, p, "num") \/ Is(toks, p, "...") -> Parsed(p + 1, toks[p].v)
    [] Is(toks, p, "(") /\ Is(toks, p + 1, ")") -> Parsed(p + 2, TupleV)
    [] Is(toks, p, "(") /\ ~Is(toks, p + 1, ")") ->
         CHOOSE out \in {IF r.ok /\ Is(toks, r.pos, ")") THEN Parsed(r.pos + 1, r.v)
                         ELSE NoParse : r \in {ParseArith(toks, p + 1)}} : TRUE
    [] OTHER -> NoParse

\* the calls that follow an atom
Trailers(toks, r) ==
  IF ~r.ok \/ ~Is(toks, r.pos, "(") THEN r
  ELSE IF Is(toks, r.pos + 1, ")")
    THEN CHOOSE out \in {Trailers(toks, n) :
                         n \in {Parsed(r.pos + 2, CallOp(r.v, TupleV))}} : TRUE
  ELSE CHOOSE out \in {IF a.ok /\ Is(toks, a.pos, ")")
                         THEN Trailers(toks, Parsed(a.pos + 1, CallOp(r.v, a.v)))
                         ELSE NoParse : a \in {ParseArith(toks, r.pos + 1)}} : TRUE

ParsePrimary(toks, p) ==
  CHOOSE out \in {Trailers(toks, a) : a \in {ParseAtom(toks, p)}} : TRUE

\* the exponent that may follow a primary
PowerRest(toks, l) ==
  IF l.ok /\ Is(toks, l.pos, "**")
    THEN CHOOSE out \in {IF r.ok THEN Parsed(r.pos, Bin("**", l.v, r.v)) ELSE NoParse :
                         r \in {ParseFactor(toks, l.pos + 1)}} : TRUE
    ELSE l

\* power: primary ["**" factor]
ParsePower(toks, p) ==
  CHOOSE out \in {PowerRest(toks, l) : l \in {ParsePrimary(toks, p)}} : TRUE

\* factor: ("+" | "-") factor | power
ParseFactor(toks, p) ==
  IF Is(toks, p, "+") \/ Is(toks, p, "-")
    THEN CHOOSE out \in {IF r.ok THEN Parsed(r.pos, Unary(toks[p].k, r.v)) ELSE NoParse :
                         r \in {ParseFactor(toks, p + 1)}} : TRUE
    ELSE ParsePower(toks, p)

TermRest(toks, l) ==
  IF l.ok /\ (Is(toks, l.pos, "*") \/ Is(toks, l.pos, "/") \/ Is(toks, l.pos, "//"))
    THEN CHOOSE out \in {IF r.ok
                           THEN TermRest(toks, Parsed(r.pos, Bin(toks[l.pos].k, l.v, r.v)))
                           ELSE NoParse : r \in {ParseFactor(toks, l.pos + 1)}} : TRUE
    ELSE l

\* term: factor (("*" | "/" | "//") factor)*
ParseTerm(toks, p) ==
  CHOOSE out \in {TermRest(toks, l) : l \in {ParseFactor(toks, p)}} : TRUE

\* + and - taken as they come, like * and /: evaluation from left to right
ArithRestLeftToRight(toks, l) ==
  IF l.ok /\ (Is(toks, l.pos, "+") \/ Is(toks, l.pos, "-")
              \/ Is(toks, l.pos, "*") \/ Is(toks, l.pos, "/"))
    THEN CHOOSE out \in {IF r.ok
                           THEN ArithRest(toks, Parsed(r.pos, Bin(toks[l.pos].k, l.v, r.v)))
                           ELSE NoParse : r \in {ParseFactor(toks, l.pos + 1)}} : TRUE
    ELSE l

ArithRest(toks, l) ==
  IF l.ok /\ (Is(toks, l.pos, "+") \/ Is(toks, l.pos, "-"))
    THEN CHOOSE out \in {IF r.ok
                           THEN ArithRest(toks, Parsed(r.pos, Bin(toks[l.pos].k, l.v, r.v)))
                           ELSE NoParse : r \in {ParseTerm(toks, l.pos + 1)}} : TRUE
    ELSE l

\* arith: term (("+" | "-") term)*
ParseArith(toks, p) ==
  CHOOSE out \in {ArithRest(toks, l) : l \in {ParseTerm(toks, p)}} : TRUE

\* the value of the token sequence, or the exception raised
EvalTokens(toks) ==
  IF \E i \in 1..Len(toks) : toks[i].k = "bad" THEN Error
  ELSE CHOOSE out \in {IF ~r.ok \/ r.pos # Len(toks) + 1 THEN Error ELSE r.v :
                       r \in {ParseArith(toks, 1)}} : TRUE

\* eval(expr): the value, or the exception raised
Eval(expr) ==
  CHOOSE out \in {EvalTokens(toks) : toks \in {Tokenize(expr, 1)}} : TRUE

\* the decimal digits of rem/d after the point, for a fraction that ends
RECURSIVE FracDigits(_, _)
FracDigits(rem, d) ==
  IF rem = 0 THEN <<>>
  ELSE <<ToString((rem * 10) \div d)>> \o FracDigits((rem * 10) % d, d)

RECURSIVE StripFactor(_, _)
StripFactor(d, f) == IF d % f = 0 THEN StripFactor(d \div f, f) ELSE d

\* str(result), in pieces.  A float whose decimal expansion ends is written
\* out; any other float is named by its fraction.
Str(v) ==
  CASE v.t = "int" -> <<ToString(v.n)>>
    [] v.t = "float" ->
         IF StripFactor(StripFactor(Abs(v.d), 2), 5) = 1
           THEN LET digits == FracDigits(Abs(v.n) % Abs(v.d), Abs(v.d))
                IN  (IF Sign(v) < 0 THEN <<"-">> ELSE <<>>)
                    \o <<ToString(Abs(v.n) \div Abs(v.d)), ".">>
                    \o (IF digits = <<>> THEN <<"0">> ELSE digits)
           ELSE <<"float ", ToString(v.n), "/", ToString(v.d)>>
    [] v.t = "approx" -> <<"float">>
    [] v.t = "tuple" -> <<"()">>
    [] v.t = "ellipsis" -> <<"Ellipsis">>

\* the character class [\d\+\-\*\/\(\)\.] of handle_math
IsMathChar(c) == IsDigit(c) \/ IsOperator(c) \/ c \in {"(", ")", "."}

\* the two re.sub calls of handle_math: the characters outside the class and
\* \s are dropped, then the whitespace
CleanExpression(expression) ==
  LET MathOrSpace(c) == IsMathChar(c) \/ IsSpace(c)
      NotSpace(c) == ~IsSpace(c)
  IN  SelectSeq(SelectSeq(expression, MathOrSpace), NotSpace)

\* re.match(r'^[\d\+\-\*\/\(\)\.]+$', expr)
IsBasicMath(expr) == expr # <<>> /\ \A i \in 1..Len(expr) : IsMathChar(expr[i])

\* a handle_math without the except clause for ZeroDivisionError
HandleMathOneExcept(expression) ==
  CHOOSE out \in
    {IF ~IsBasicMath(expr)
       THEN <<"I can only handle basic math with +, -, *, / and parentheses.">>
       ELSE CHOOSE reply \in
              {IF Raised(result)
                 THEN <<"I couldn't solve that math problem. Please check your expression.">>
                 ELSE <<"The answer is: ">> \o Str(result) :
               result \in {Eval(expr)}} : TRUE :
     expr \in {CleanExpression(expression)}} : TRUE

\* handle_math
HandleMath(expression) ==
  CHOOSE out \in
    {IF ~IsBasicMath(expr)
       THEN <<"I can only handle basic math with +, -, *, / and parentheses.">>
       ELSE CHOOSE reply \in
              {CASE result.t = "zerodiv" -> <<"Oops! Division by zero is not allowed.">>
                 [] result.t = "error" ->
                      <<"I couldn't solve that math problem. Please check your expression.">>
                 [] OTHER -> <<"The answer is: ">> \o Str(result) :
               result \in {Eval(expr)}} : TRUE :
     expr \in {CleanExpression(expression)}} : TRUE

\* the text that handle_math hands to eval (line 148), <<>> when it hands
\* none
Evaluated(expression) ==
  CHOOSE out \in {IF IsBasicMath(expr) THEN expr ELSE <<>> :
                  expr \in {CleanExpression(expression)}} : TRUE

\* handle_time_query, datetime.now() reading now
HandleTimeQuery(now) == <<"The current time is ", now.time, " on ", now.date, ".">>

\* handle_date_query
HandleDateQuery(now) == <<"Today is ", now.date, ".">>

----------------------------------------------------------------------------
(* The matcher *)

\* the character class [\d\+\-\*\/\(\)\.\s] of find_best_response
IsExprChar(c) == IsMathChar(c) \/ IsSpace(c)

\* the first character of the class from text[i] on (0 when there is none)
RECURSIVE ExprStart(_, _)
ExprStart(text, i) ==
  IF i > Len(text) THEN 0
  ELSE IF IsExprChar(text[i]) THEN i ELSE ExprStart(text, i + 1)

\* the end of the run of characters of the class that starts at text[i]
RECURSIVE ExprEnd(_, _)
ExprEnd(text, i) ==
  IF i + 1 <= Len(text) /\ IsExprChar(text[i + 1]) THEN ExprEnd(text, i + 1) ELSE i

\* re.search(r'[\d\+\-\*\/\(\)\.\s]+', text).group(): the leftmost longest
\* run of characters of the class (<<>> when there is none: no match)
MathExpr(text) ==
  CHOOSE out \in
    {IF first = 0 THEN <<>> ELSE SubSeq(text, first, ExprEnd(text, first)) :
     first \in {ExprStart(text, 1)}} : TRUE

Match(response, confidence) == [response |-> response, confidence |-> confidence]

\* user_input.strip().lower(), done once for each message and looked up
Normal == [m \in DOMAIN Chars |-> StrLower(StrStrip(Chars[m]))]

Normalize(message) == Normal[message]

\* The text work of the matcher depends on the message alone; it is done once
\* for each message and looked up: the seed expressions that a message
\* matches, and the reply of handle_math to the expression found in it
\* (<<>> when none is found).
SeedExpressions == {InitialPatterns[k].pattern : k \in 1..Len(InitialPatterns)}

SearchTable ==
  [m \in DOMAIN Chars |-> {p \in SeedExpressions : Search(p, Normalize(m))}]

MathTable ==
  [m \in DOMAIN Chars |->
     CHOOSE out \in {IF expr = <<>> THEN <<>> ELSE HandleMath(expr) :
                     expr \in {MathExpr(Normalize(m))}} : TRUE]

\* pattern_info['pattern'].search(user_input)
Matches(pattern, message) ==
  IF pattern \in SeedExpressions THEN pattern \in SearchTable[message]
  ELSE Search(pattern, Normalize(message))

\* the loop of find_best_response from pattern k on; best_match "" is None
RECURSIVE Scan(_, _, _, _, _, _)
Scan(patterns, k, message, best_match, best_confidence, now) ==
  IF k > Len(patterns)
    THEN Match(<<IF best_match # "" THEN best_match
                 ELSE "I'm not sure how to respond to that.">>, best_confidence)
  ELSE
    LET info == patterns[k]
        confidence == info.weight
    IN  IF ~Matches(info.pattern, message)
          THEN Scan(patterns, k + 1, message, best_match, best_confidence, now)
        ELSE IF info.category = "math" THEN
          (IF MathTable[message] # <<>>
             THEN Match(MathTable[message], confidence)
             ELSE Scan(patterns, k + 1, message, best_match, best_confidence, now))
        ELSE IF info.category = "time" THEN Match(HandleTimeQuery(now), confidence)
        ELSE IF info.category = "date" THEN Match(HandleDateQuery(now), confidence)
        ELSE IF info.response # "" /\ confidence > best_confidence
          THEN Scan(patterns, k + 1, message, info.response, confidence, now)
        ELSE Scan(patterns, k + 1, message, best_match, best_confidence, now)

\* a matcher for which the time category is no special one
FindBestResponseNoTime(patterns, message, now) ==
  Scan([k \in 1..Len(patterns) |->
          IF patterns[k].category = "time"
            THEN [patterns[k] EXCEPT !.category = "general"] ELSE patterns[k]],
       1, message, "", 0, now)

\* a matcher whose confidence adds up the weights of the patterns that match
FindBestResponseSummed(patterns, message, now) ==
  [Scan(patterns, 1, message, "", 0, now) EXCEPT
     !.confidence = @ * Cardinality({k \in 1..Len(patterns) :
                                      Matches(patterns[k].pattern, message)})]

\* find_best_response(user_input), self.patterns being patterns
FindBestResponse(patterns, message, now) ==
  Scan(patterns, 1, message, "", 0, now)

----------------------------------------------------------------------------
(* The conversation log and the statistics *)

Exchange(user_input, bot_response, confidence) ==
  [user_input |-> user_input, bot_response |-> bot_response, confidence |-> confidence]

\* a code point of the surrogate range D800-DFFF ("\\ud800" is one
\* character, named by its escape); UTF-8 has no encoding for it
IsSurrogate(c) == c = "\\ud800"

\* cursor.execute binds a str as UTF-8: whether the text can be bound
Storable(text) == \A i \in 1..Len(text) : ~IsSurrogate(text[i])

\* str(e) of the UnicodeEncodeError that cursor.execute raises on a text
\* that cannot be bound (the position counts from 0)
EncodeError(text) ==
  <<"'utf-8' codec can't encode character '\\ud800' in position ",
    ToString((CHOOSE i \in 1..Len(text) :
                IsSurrogate(text[i]) /\ \A j \in 1..(i - 1) : ~IsSurrogate(text[j])) - 1),
    ": surrogates not allowed">>

\* a write that replaces the newest row of the table
LearnFromConversationLast(log, user_input, bot_response, confidence) ==
  IF log = <<>> THEN <<Exchange(user_input, bot_response, confidence)>>
  ELSE [log EXCEPT ![Len(log)] = Exchange(user_input, bot_response, confidence)]

\* a write that inserts the row twice
LearnFromConversationTwice(log, user_input, bot_response, confidence) ==
  log \o <<Exchange(user_input, bot_response, confidence),
           Exchange(user_input, bot_response, confidence)>>

\* learn_from_conversation: one INSERT, committed
LearnFromConversation(log, user_input, bot_response, confidence) ==
  Append(log, Exchange(user_input, bot_response, confidence))

RECURSIVE SumConfidence(_)
SumConfidence(log) ==
  IF log = <<>> THEN 0 ELSE log[1].confidence + SumConfidence(Tail(log))

\* round(n / d, 2) in hundredths, n / d >= 0.  A mean that lies halfway
\* between two hundredths is a float just above or just below the half, as
\* the floating-point sum falls: tie (0 or 1) says which.
Round2(n, d, tie) ==
  LET q == (100 * n) \div d
      r == (100 * n) % d
  IN  IF 2 * r > d THEN q + 1 ELSE IF 2 * r = d THEN q + tie ELSE q

\* SELECT COUNT(*) FROM conversations
CountRows(log) == Len(log)

\* round(SELECT AVG(confidence) or 0.0, 2), in hundredths
AverageConfidence(log, tie) ==
  IF log = <<>> THEN 0 ELSE Round2(SumConfidence(log), 10 * Len(log), tie)

\* a count of distinct inputs that takes "Hi" and "hi" for one
CountDistinctInputsAnyCase(log) == Cardinality({Normalize(log[i].user_input) : i \in 1..Len(log)})

\* SELECT COUNT(DISTINCT user_input) FROM conversations
CountDistinctInputs(log) == Cardinality({log[i].user_input : i \in 1..Len(log)})

\* get_conversation_stats, the three SELECTs reading one log
GetConversationStats(log, tie) ==
  [total_conversations |-> CountRows(log),
   average_confidence |-> AverageConfidence(log, tie),
   unique_inputs |-> CountDistinctInputs(log)]

----------------------------------------------------------------------------
(* The command layer and get_response *)

\* f"You: {q}\nMe: {a}" for one entry (q, a) of the ring
RenderEntry(entry) == <<"You: ", entry[1], "\nMe: ">> \o entry[2]

\* "\n".join(entries rendered)
RECURSIVE JoinEntries(_)
JoinEntries(entries) ==
  IF entries = <<>> THEN <<>>
  ELSE IF Len(entries) = 1 THEN RenderEntry(entries[1])
  ELSE RenderEntry(entries[1]) \o <<"\n">> \o JoinEntries(Tail(entries))

\* history[-n:]
LastN(history, n) ==
  IF Len(history) <= n THEN history ELSE SubSeq(history, Len(history) - n + 1, Len(history))

\* the first three entries instead of the last (history[:3])
RecentHistoryOldest(history) ==
  IF Len(history) <= HistoryShown THEN history ELSE SubSeq(history, 1, HistoryShown)

\* self.conversation_history[-3:]
RecentHistory(history) == LastN(history, HistoryShown)

\* the reply of the history command that found entries in the ring
HistoryText(history) ==
  <<"Here are our recent exchanges:\n\n">> \o JoinEntries(RecentHistory(history))

\* the reply of the history command
HistoryView(history) ==
  IF history # <<>>
    THEN HistoryText(history)
    ELSE <<"We haven't chatted yet! This is our first conversation.">>

\* the reply of the stats command (the bullets of the source are written "*")
StatsView(stats) ==
  <<"Chat Statistics:\n* Total conversations: ", ToString(stats.total_conversations),
    "\n* Average confidence: ">> \o Str(FloatV(stats.average_confidence, 100))
  \o <<"\n* Unique questions: ", ToString(stats.unique_inputs)>>

\* the checks without the one for "stats" and "statistics"
CommandOfNoStats(message) ==
  LET text == Chars[message]
      low == StrLower(text)
  IN  IF text = <<>> \/ StrStrip(text) = <<>> THEN "empty"
      ELSE IF Contains(Chars["conversation history"], low) \/ Contains(Chars["chat history"], low)
        THEN "history"
      ELSE IF Contains(Chars["clear history"], low) THEN "clear"
      ELSE "matcher"

\* the checks with "clear history" tested before the history keywords
CommandOfClearFirst(message) ==
  LET text == Chars[message]
      low == StrLower(text)
  IN  IF text = <<>> \/ StrStrip(text) = <<>> THEN "empty"
      ELSE IF Contains(Chars["clear history"], low) THEN "clear"
      ELSE IF Contains(Chars["conversation history"], low) \/ Contains(Chars["chat history"], low)
        THEN "history"
      ELSE IF Contains(Chars["stats"], low) \/ Contains(Chars["statistics"], low) THEN "stats"
      ELSE "matcher"

\* the branch of get_response a message takes: the checks in source order
CommandOf(message) ==
  LET text == Chars[message]
      low == StrLower(text)
  IN  IF text = <<>> \/ StrStrip(text) = <<>> THEN "empty"
      ELSE IF Contains(Chars["conversation history"], low) \/ Contains(Chars["chat history"], low)
        THEN "history"
      ELSE IF Contains(Chars["clear history"], low) THEN "clear"
      ELSE IF Contains(Chars["stats"], low) \/ Contains(Chars["statistics"], low) THEN "stats"
      ELSE "matcher"

\* the branch of each message, looked up
CommandTable == [m \in DOMAIN Chars |-> CommandOf(m)]

Command(message) == CommandTable[message]

\* self.conversation_history.append((message, response))
AppendHistory(history, message, response) == Append(history, <<message, response>>)

\* a trim that lets the ring reach 21 entries before it cuts
TrimHistoryLate(history) ==
  IF Len(history) > HistoryLimit + 1 THEN LastN(history, HistoryLimit) ELSE history

\* a trim that keeps the oldest 20 entries (history[:20])
TrimHistoryOldest(history) ==
  IF Len(history) > HistoryLimit THEN SubSeq(history, 1, HistoryLimit) ELSE history

\* if len(history) > 20: history = history[-20:]
TrimHistory(history) ==
  IF Len(history) > HistoryLimit THEN LastN(history, HistoryLimit) ELSE history

\* a clear that leaves the ring as it is
ClearNothing(history) == history

\* self.conversation_history.clear()
ClearHistory(history) == <<>>

\* the reply of the except clause of get_response to the exception e
ErrorView(e) ==
  <<"I encountered an error: ">> \o e \o <<". Please try rephrasing your message.">>

\* The whole of get_response(message) on a bot with ring history, the log
\* being log, datetime.now() reading now: the reply, and the ring and the
\* log it leaves.  The INSERT of a message that cannot be bound raises
\* before anything is written, and the except clause answers (path "error").
Respond(patterns, history, log, message, now, tie) ==
  LET path == Command(message)
      Out(response, confidence, h, l) ==
        [path |-> path, response |-> response, confidence |-> confidence,
         history |-> h, log |-> l]
  IN  CASE path = "empty" ->
             Out(<<"Please say something! I'm here to chat with you.">>, 0, history, log)
        [] path = "history" -> Out(HistoryView(history), 0, history, log)
        [] path = "clear" ->
             Out(<<"Conversation history cleared! Starting fresh.">>, 0,
                 ClearHistory(history), log)
        [] path = "stats" ->
             CHOOSE out \in {Out(StatsView(stats), 0, history, log) :
                             stats \in {GetConversationStats(log, tie)}} : TRUE
        [] path = "matcher" ->
             IF ~Storable(Chars[message])
               THEN [path |-> "error", response |-> ErrorView(EncodeError(Chars[message])),
                     confidence |-> 0, history |-> history, log |-> log]
               ELSE CHOOSE out \in
                      {Out(m.response, m.confidence,
                           CHOOSE h \in {TrimHistory(a) :
                                         a \in {AppendHistory(history, message, m.response)}} :
                             TRUE,
                           LearnFromConversation(log, message, m.response, m.confidence)) :
                       m \in {FindBestResponse(patterns, message, now)}} : TRUE

\* str(e) of the sqlite3.OperationalError that a statement raises while the
\* store is out of order
StorageErrors == {"database is locked", "disk I/O error"}

\* the condition of the store during a call: it works, or every statement
\* on it raises
Faults == {"ok"} \cup StorageErrors

\* an exception that leaves the try block: nothing is returned, the ring and
\* the log are as the block left them
Raise(e, history, log) ==
  [path |-> "raise", response |-> e, confidence |-> 0, history |-> history, log |-> log]

\* a try block that puts the exchange in the ring before it writes the log
TryBlockRingFirst(patterns, history, log, message, now, tie, fault) ==
  CHOOSE out \in
    {IF path = "stats" /\ fault # "ok" THEN Raise(<<fault>>, history, log)
     ELSE IF path = "matcher" /\ ~Storable(Chars[message])
       THEN Raise(EncodeError(Chars[message]), history, log)
     ELSE IF path = "matcher" /\ fault # "ok"
       THEN Raise(<<fault>>,
                  TrimHistory(AppendHistory(history, message,
                                            FindBestResponse(patterns, message, now).response)),
                  log)
     ELSE Respond(patterns, history, log, message, now, tie) :
     path \in {Command(message)}} : TRUE

\* The try block of get_response (lines 234-266) when the store is in the
\* condition fault.  The SELECTs of the stats command and the INSERT of
\* learn_from_conversation raise when the store is out of order; the INSERT
\* raises on a text it cannot bind before it reaches the store.  The INSERT
\* comes before the append to the ring.
TryBlock(patterns, history, log, message, now, tie, fault) ==
  CHOOSE out \in
    {IF path = "stats" /\ fault # "ok" THEN Raise(<<fault>>, history, log)
     ELSE IF path = "matcher" /\ ~Storable(Chars[message])
       THEN Raise(EncodeError(Chars[message]), history, log)
     ELSE IF path = "matcher" /\ fault # "ok" THEN Raise(<<fault>>, history, log)
     ELSE Respond(patterns, history, log, message, now, tie) :
     path \in {Command(message)}} : TRUE

\* no except clause: the exception goes on to the caller
ExceptNothing(out) == out

\* except Exception as e (lines 268-269): the exception becomes the reply
ExceptClause(out) ==
  IF out.path = "raise"
    THEN [out EXCEPT !.path = "error", !.response = ErrorView(out.response)]
    ELSE out

\* get_response(message) while the store is in the condition fault
RespondFault(patterns, history, log, message, now, tie, fault) ==
  CHOOSE out \in
    {ExceptClause(body) :
     body \in {TryBlock(patterns, history, log, message, now, tie, fault)}} : TRUE

----------------------------------------------------------------------------
(* State *)

\* readings of datetime.now()
Clock == { [time |-> "09:30:00", date |-> "Monday, January 05, 2026"],
           [time |-> "23:59:59", date |-> "Tuesday, January 06, 2026"] }

\* the ways a halfway mean rounds
Ties == {0, 1}

\* a SimpleChatbot object not constructed yet
NoBot == [state |-> "none", patterns |-> <<>>, conversation_history |-> <<>>]

\* no direct call of handle_math: input is what the caller wrote,
\* expression its text, evaluated the text that eval was given
NoMath == [input |-> "", expression |-> <<>>, evaluated |-> <<>>]

\* a caller that has made no call yet
NoCall == [pc |-> "idle", bot |-> 0, message |-> "", path |-> "",
           response |-> <<>>, confidence |-> 0, slice |-> <<>>,
           total |-> 0, average |-> 0, fault |-> "ok", math |-> NoMath]

\* the store is new and no object is constructed
Init ==
  /\ patternsTable = <<>>
  /\ conversations = <<>>
  /\ bots = [b \in Bots |-> NoBot]
  /\ calls = [c \in Callers |-> NoCall]

Ready(b) == bots[b].state = "ready"

----------------------------------------------------------------------------
(* Sequential operation: a constructor or a call runs to its end before    *)
(* the next begins.                                                        *)

\* SimpleChatbot(db_path): __init__ with init_database and load_responses
Construct(b) ==
  /\ bots[b].state = "none"
  /\ \E table \in {IF IsDatabaseEmpty(patternsTable)
                      THEN LoadInitialPatterns(patternsTable) ELSE patternsTable} :
       /\ patternsTable' = table
       /\ bots' = [bots EXCEPT ![b] = [state |-> "ready",
                                       patterns |-> LoadResponses(table),
                                       conversation_history |-> <<>>]]
  /\ UNCHANGED <<conversations, calls>>

\* caller c calls get_response(m) on bot b
Call(c, b, m) ==
  /\ calls[c].pc \in {"idle", "done"}
  /\ Ready(b)
  /\ calls' = [calls EXCEPT ![c] = [NoCall EXCEPT !.pc = "called", !.bot = b, !.message = m]]
  /\ UNCHANGED <<patternsTable, conversations, bots>>

\* get_response runs from entry to return
GetResponse(c, now, tie) ==
  /\ calls[c].pc = "called"
  /\ \E b \in {calls[c].bot} :
       \E out \in {Respond(bots[b].patterns, bots[b].conversation_history, conversations,
                           calls[c].message, now, tie)} :
         /\ conversations' = out.log
         /\ bots' = [bots EXCEPT ![b].conversation_history = out.history]
         /\ calls' = [calls EXCEPT ![c].pc = "done", ![c].path = out.path,
                                   ![c].response = out.response,
                                   ![c].confidence = out.confidence]
  /\ UNCHANGED patternsTable

\* the messages sent in the general specification
Messages == {"", "hi", "xyz", "2+3", "chat history", "clear history", "stats", "\\ud800"}

\* the messages whose exchange get_response writes to the log
Logged(m) == Command(m) = "matcher" /\ Storable(Chars[m])

\* a call whose exchange is logged is made only while the log is short
SendMessage(c, b, m) ==
  /\ Logged(m) => Len(conversations) < MaxLog
  /\ Call(c, b, m)

TalkSend(m) ==
  /\ Logged(m) => Len(conversations) < MaxTalkLog
  /\ Call(1, 1, m)

Next ==
  \/ \E b \in Bots : Construct(b)
  \/ \E b \in Bots, m \in Messages : SendMessage(1, b, m)
  \/ \E now \in Clock, tie \in Ties : GetResponse(1, now, tie)

Spec == Init /\ [][Next]_vars

----------------------------------------------------------------------------
(* The statistics specification: the bots answer a few messages, two of    *)
(* them alike but for letter case, clear their rings and report the        *)
(* statistics.                                                             *)

StatsMessages == {"hi", "Hi", "2+3", "clear history", "stats"}

StatsSend(b, m) ==
  /\ Logged(m) => Len(conversations) < MaxStatsLog
  /\ Call(1, b, m)

\* the bots of the statistics specification: the first and the last
StatsBots == {1, NumBots}

NextStats ==
  \/ \E b \in StatsBots : Construct(b)
  \/ \E b \in StatsBots, m \in StatsMessages : StatsSend(b, m)
  \/ \E now \in Clock, tie \in Ties : GetResponse(1, now, tie)

SpecStats == Init /\ [][NextStats]_vars

----------------------------------------------------------------------------
(* The talk specification: one bot, one caller, a short conversation over  *)
(* every kind of message.                                                  *)

TalkMessages == {"", "  ", "hi", "xyz", "2+3", "time now", "today",
                 "chat history", "Conversation History", "clear history",
                 "chat history clear history", "clear history stats",
                 "stats", "Statistics", "stats 2+3", "\\ud800", "Hi",
                 "Clear History today", "STATS time now"}

NextTalk ==
  \/ Construct(1)
  \/ \E m \in TalkMessages : TalkSend(m)
  \/ \E now \in Clock, tie \in Ties : GetResponse(1, now, tie)

SpecTalk == Init /\ [][NextTalk]_vars

----------------------------------------------------------------------------
(* The ring specification: one bot, one caller, a long conversation made   *)
(* of a filler message and a few other messages.                           *)

Filler == "hi"

RingMessages == {"", "hi", "xyz", "chat history", "clear history", "stats", "\\ud800"}

InitRing ==
  /\ patternsTable = InitialPatterns
  /\ conversations = <<>>
  /\ bots = [b \in Bots |-> IF b = 1
               THEN [state |-> "ready", patterns |-> LoadResponses(InitialPatterns),
                     conversation_history |-> <<>>]
               ELSE NoBot]
  /\ calls = [c \in Callers |-> NoCall]

Varied(log) == Cardinality({i \in 1..Len(log) : log[i].user_input # Filler})

RingSend(m) ==
  /\ Logged(m) =>
       /\ Len(conversations) < MaxRingLog
       /\ m # Filler => Varied(conversations) < MaxVaried
  /\ Call(1, 1, m)

NextRing ==
  \/ \E m \in RingMessages : RingSend(m)
  \/ \E now \in Clock, tie \in Ties : GetResponse(1, now, tie)

SpecRing == InitRing /\ [][NextRing]_vars

----------------------------------------------------------------------------
(* The fault specification: one bot, one caller, and a store that during   *)
(* some calls is out of order.                                             *)

FaultMessages == {"", "hi", "2+3", "5 / 0", "(2+3", "chat history", "clear history",
                  "stats", "\\ud800"}

\* caller c calls get_response(m) on bot b; during the call the store is in
\* the condition fault
CallFault(c, b, m, fault) ==
  /\ calls[c].pc \in {"idle", "done"}
  /\ Ready(b)
  /\ Logged(m) /\ fault = "ok" => Len(conversations) < MaxFaultLog
  /\ calls' = [calls EXCEPT ![c] = [NoCall EXCEPT !.pc = "called", !.bot = b,
                                                  !.message = m, !.fault = fault]]
  /\ UNCHANGED <<patternsTable, conversations, bots>>

\* get_response runs from entry to return
GetResponseFault(c, now, tie) ==
  /\ calls[c].pc = "called"
  /\ \E b \in {calls[c].bot} :
       \E out \in {RespondFault(bots[b].patterns, bots[b].conversation_history, conversations,
                                calls[c].message, now, tie, calls[c].fault)} :
         /\ conversations' = out.log
         /\ bots' = [bots EXCEPT ![b].conversation_history = out.history]
         /\ calls' = [calls EXCEPT ![c].pc = "done", ![c].path = out.path,
                                   ![c].response = out.response,
                                   ![c].confidence = out.confidence]
  /\ UNCHANGED patternsTable

NextFault ==
  \/ \E m \in FaultMessages, fault \in Faults : CallFault(1, 1, m, fault)
  \/ \E now \in Clock, tie \in Ties : GetResponseFault(1, now, tie)

SpecFault == InitRing /\ [][NextFault]_vars

----------------------------------------------------------------------------
(* The evaluator specification: handle_math is called on an expression     *)
(* drawn from two families, arithmetic on a few numbers and every short    *)
(* text over a few characters; and a caller who calls nothing directly     *)
(* sends messages with expressions to get_response.                        *)

\* the numbers of the expressions: the squares 0, 1, 4, 9, 16, ...
Numbers == {n * n : n \in 0..MaxNum}

Operators == {"+", "-", "*", "/"}

\* a op1 b, a op1 b op2 c, (a op1 b) op2 c and a op1 (b op2 c), written
\* with or without blanks around the operators
Shapes == {"ab", "abc", "(ab)c", "a(bc)"}

\* an input of handle_math: a term, or (shape "text") a text
Term(shape, a, b, c, op1, op2, spaced) ==
  [shape |-> shape, a |-> a, b |-> b, c |-> c, op1 |-> op1, op2 |-> op2,
   spaced |-> spaced, text |-> <<>>]

Text(text) ==
  [shape |-> "text", a |-> 0, b |-> 0, c |-> 0, op1 |-> "+", op2 |-> "+",
   spaced |-> FALSE, text |-> text]

\* the terms; one of shape a op b has no c and no op2
Terms ==
  {Term(shape, a, b, c, op1, op2, spaced) :
     shape \in Shapes \ {"ab"}, a \in Numbers, b \in Numbers, c \in Numbers,
     op1 \in Operators, op2 \in Operators, spaced \in BOOLEAN}
  \cup {Term("ab", a, b, 0, op1, "+", spaced) :
         a \in Numbers, b \in Numbers, op1 \in Operators, spaced \in BOOLEAN}

\* the characters of the texts
TextChars == {"0", "1", "+", "*", "/", "(", ")", ".", "a", "\\u0663"}

\* the texts of 1 to MaxTextLen characters
Texts == {Text(t) : t \in UNION {[1..n -> TextChars] : n \in 1..MaxTextLen}}

\* the decimal digits of n
RECURSIVE Decimal(_)
Decimal(n) ==
  IF n < 10 THEN <<ToString(n)>> ELSE Decimal(n \div 10) \o <<ToString(n % 10)>>

\* the text of a term, as a caller types it
Write(t) ==
  LET op(o) == IF t.spaced THEN <<" ", o, " ">> ELSE <<o>>
      a == Decimal(t.a)
      b == Decimal(t.b)
      c == Decimal(t.c)
  IN  CASE t.shape = "ab" -> a \o op(t.op1) \o b
        [] t.shape = "abc" -> a \o op(t.op1) \o b \o op(t.op2) \o c
        [] t.shape = "(ab)c" -> <<"(">> \o a \o op(t.op1) \o b \o <<")">> \o op(t.op2) \o c
        [] t.shape = "a(bc)" -> a \o op(t.op1) \o <<"(">> \o b \o op(t.op2) \o c \o <<")">>
        [] t.shape = "text" -> t.text

MathInputs == Terms \cup Texts

\* bot 1 is constructed on a seeded store; caller 1 has called nothing, or
\* is about to call handle_math on an expression
InitMath ==
  /\ patternsTable = InitialPatterns
  /\ conversations = <<>>
  /\ bots = [b \in Bots |-> IF b = 1
               THEN [state |-> "ready", patterns |-> LoadResponses(InitialPatterns),
                     conversation_history |-> <<>>]
               ELSE NoBot]
  /\ \E math \in {NoMath} \cup
                  {[input |-> i, expression |-> Write(i), evaluated |-> <<>>] :
                   i \in MathInputs} :
       calls = [c \in Callers |->
                  IF c = 1 /\ math # NoMath
                    THEN [NoCall EXCEPT !.pc = "math", !.math = math]
                    ELSE NoCall]

\* handle_math(expression) runs from entry to return
HandleMathCall(c) ==
  /\ calls[c].pc = "math"
  /\ calls' = [calls EXCEPT ![c].pc = "solved",
                            ![c].response = HandleMath(calls[c].math.expression),
                            ![c].math.evaluated = Evaluated(calls[c].math.expression)]
  /\ UNCHANGED <<patternsTable, conversations, bots>>

MathMessages == {"5 / 0", "2 + 3", "(2+3", "What is 2 + 3?", "What is 15 + 27?", "1+2**3"}

MathSend(m) ==
  /\ Logged(m) => Len(conversations) < MaxMathLog
  /\ Call(1, 1, m)

NextMath ==
  \/ \E c \in Callers : HandleMathCall(c)
  \/ \E m \in MathMessages : MathSend(m)
  \/ \E now \in Clock, tie \in Ties : GetResponse(1, now, tie)

SpecMath == InitMath /\ [][NextMath]_vars

----------------------------------------------------------------------------
(* The matcher specification: one bot is constructed on a store that is    *)
(* new, seeded, or seeded twice (by two constructors that both found it    *)
(* empty), and answers messages that match several patterns at once.       *)

\* the patterns tables that constructors leave behind
Stores == {<<>>, InitialPatterns, InitialPatterns \o InitialPatterns}

InitMatch ==
  /\ patternsTable \in Stores
  /\ conversations = <<>>
  /\ bots = [b \in Bots |-> NoBot]
  /\ calls = [c \in Callers |-> NoCall]

MatchMessages == {"hi", "xyz", "thanks hi", "bye thanks", "2+3", "time now", "today",
                  "thanks today", "today 2+3", "today time now", "What is 2 + 3?"}

MatchSend(m) ==
  /\ Logged(m) => Len(conversations) < MaxMatchLog
  /\ Call(1, 1, m)

NextMatch ==
  \/ Construct(1)
  \/ \E m \in MatchMessages : MatchSend(m)
  \/ \E now \in Clock, tie \in Ties : GetResponse(1, now, tie)

SpecMatch == InitMatch /\ [][NextMatch]_vars

----------------------------------------------------------------------------
(* Concurrent construction: the constructors of several objects interleave *)
(* at their accesses to the store.  A SELECT reads what is committed; the  *)
(* 13 INSERTs of load_initial_patterns are one transaction and show at its *)
(* commit.                                                                 *)

\* __init__ through init_database up to its test: the tables exist, and
\* is_database_empty reads the count that decides whether this constructor
\* seeds
CheckEmpty(b) ==
  /\ bots[b].state = "none"
  /\ bots' = [bots EXCEPT ![b].state =
                IF IsDatabaseEmpty(patternsTable) THEN "seed" ELSE "load"]
  /\ UNCHANGED <<patternsTable, conversations, calls>>

\* load_initial_patterns, at its commit
SeedPatterns(b) ==
  /\ bots[b].state = "seed"
  /\ patternsTable' = LoadInitialPatterns(patternsTable)
  /\ bots' = [bots EXCEPT ![b].state = "load"]
  /\ UNCHANGED <<conversations, calls>>

\* load_responses, and the constructor returns
LoadPatterns(b) ==
  /\ bots[b].state = "load"
  /\ bots' = [bots EXCEPT ![b] = [state |-> "ready",
                                  patterns |-> LoadResponses(patternsTable),
                                  conversation_history |-> <<>>]]
  /\ UNCHANGED <<patternsTable, conversations, calls>>

RaceMessages == {"hi", "xyz", "2+3", "chat history", "stats"}

NextRace ==
  \/ \E b \in Bots : CheckEmpty(b)
  \/ \E b \in Bots : SeedPatterns(b)
  \/ \E b \in Bots : LoadPatterns(b)
  \/ \E b \in Bots, m \in RaceMessages : SendMessage(1, b, m)
  \/ \E now \in Clock, tie \in Ties : GetResponse(1, now, tie)

SpecRace == Init /\ [][NextRace]_vars

\* The seeding specification: the constructors interleave, and the bots
\* that are constructed answer a message that only the catch-all pattern
\* matches.
SeedMessages == {"xyz", "stats"}

SeedSend(b, m) ==
  /\ Logged(m) => Len(conversations) < MaxSeedLog
  /\ Call(1, b, m)

NextSeed ==
  \/ \E b \in Bots : CheckEmpty(b)
  \/ \E b \in Bots : SeedPatterns(b)
  \/ \E b \in Bots : LoadPatterns(b)
  \/ \E b \in Bots, m \in SeedMessages : SeedSend(b, m)
  \/ \E now \in Clock, tie \in Ties : GetResponse(1, now, tie)

SpecSeed == Init /\ [][NextSeed]_vars

----------------------------------------------------------------------------
(* Concurrent calls: the get_response calls of several callers, on one     *)
(* object or on objects that share the store, interleave at their accesses *)
(* to the log and to the ring.  Each statement on the store is atomic, and *)
(* so is each operation on the list (the interpreter lock).                *)

\* the reply of the matcher to the filler message
FillerReply == FindBestResponse(LoadResponses(InitialPatterns), Filler, CHOOSE now \in Clock : TRUE)

\* bot 1 has answered 20 filler messages and its ring is full; the other
\* bots are constructed and have answered nothing
InitConc ==
  /\ patternsTable = InitialPatterns
  /\ conversations = [i \in 1..HistoryLimit |->
                        Exchange(Filler, FillerReply.response, FillerReply.confidence)]
  /\ bots = [b \in Bots |->
               [state |-> "ready", patterns |-> LoadResponses(InitialPatterns),
                conversation_history |->
                  IF b = 1 THEN [i \in 1..HistoryLimit |-> <<Filler, FillerReply.response>>]
                  ELSE <<>>]]
  /\ calls = [c \in Callers |-> NoCall]

\* the calls under way that have yet to write to the log
Pending ==
  Cardinality({c \in Callers : calls[c].pc \in {"called", "learn"} /\ Logged(calls[c].message)})

ConcSend(c, b, m) ==
  /\ Logged(m) => Len(conversations) + Pending < HistoryLimit + MaxConcLog
  /\ Call(c, b, m)

\* caller c returns with the reply
Return(c, path, response) ==
  calls' = [calls EXCEPT ![c].pc = "done", ![c].path = path, ![c].response = response]

\* get_response from its entry through the command checks: the empty
\* message and "clear history" are answered here, the history command reads
\* whether the ring holds entries, the stats command goes on to its
\* SELECTs, and any other message gets the reply of the matcher
Dispatch(c, now) ==
  /\ calls[c].pc = "called"
  /\ \E b \in {calls[c].bot}, path \in {Command(calls[c].message)} :
       CASE path = "empty" ->
              /\ Return(c, path, <<"Please say something! I'm here to chat with you.">>)
              /\ UNCHANGED bots
         [] path = "history" ->
              /\ IF bots[b].conversation_history # <<>>
                   THEN calls' = [calls EXCEPT ![c].pc = "render", ![c].path = path]
                   ELSE Return(c, path, HistoryView(<<>>))
              /\ UNCHANGED bots
         [] path = "clear" ->
              /\ bots' = [bots EXCEPT ![b].conversation_history = ClearHistory(@)]
              /\ Return(c, path, <<"Conversation history cleared! Starting fresh.">>)
         [] path = "stats" ->
              /\ calls' = [calls EXCEPT ![c].pc = "count", ![c].path = path]
              /\ UNCHANGED bots
         [] path = "matcher" ->
              /\ \E m \in {FindBestResponse(bots[b].patterns, calls[c].message, now)} :
                   calls' = [calls EXCEPT ![c].pc = "learn", ![c].path = path,
                                          ![c].response = m.response,
                                          ![c].confidence = m.confidence]
              /\ UNCHANGED bots
  /\ UNCHANGED <<patternsTable, conversations>>

\* the history command reads the last three entries of the ring
Render(c) ==
  /\ calls[c].pc = "render"
  /\ Return(c, "history", HistoryText(bots[calls[c].bot].conversation_history))
  /\ UNCHANGED <<patternsTable, conversations, bots>>

\* get_conversation_stats: SELECT COUNT(*)
Count(c) ==
  /\ calls[c].pc = "count"
  /\ calls' = [calls EXCEPT ![c].pc = "average", ![c].total = CountRows(conversations)]
  /\ UNCHANGED <<patternsTable, conversations, bots>>

\* get_conversation_stats: SELECT AVG(confidence)
Average(c, tie) ==
  /\ calls[c].pc = "average"
  /\ calls' = [calls EXCEPT ![c].pc = "unique",
                            ![c].average = AverageConfidence(conversations, tie)]
  /\ UNCHANGED <<patternsTable, conversations, bots>>

\* get_conversation_stats: SELECT COUNT(DISTINCT user_input), and the reply
Unique(c) ==
  /\ calls[c].pc = "unique"
  /\ Return(c, "stats",
            StatsView([total_conversations |-> calls[c].total,
                       average_confidence |-> calls[c].average,
                       unique_inputs |-> CountDistinctInputs(conversations)]))
  /\ UNCHANGED <<patternsTable, conversations, bots>>

\* learn_from_conversation: the INSERT and its commit, or the exception of
\* a message that cannot be bound and the reply of the except clause
Learn(c) ==
  /\ calls[c].pc = "learn"
  /\ IF Storable(Chars[calls[c].message])
       THEN /\ conversations' = LearnFromConversation(conversations, calls[c].message,
                                                      calls[c].response, calls[c].confidence)
            /\ calls' = [calls EXCEPT ![c].pc = "append"]
       ELSE /\ calls' = [calls EXCEPT ![c].pc = "done", ![c].path = "error",
                                      ![c].response = ErrorView(EncodeError(Chars[calls[c].message])),
                                      ![c].confidence = 0]
            /\ UNCHANGED conversations
  /\ UNCHANGED <<patternsTable, bots>>

\* self.conversation_history.append((message, response))
AppendRing(c) ==
  /\ calls[c].pc = "append"
  /\ bots' = [bots EXCEPT ![calls[c].bot].conversation_history =
                AppendHistory(@, calls[c].message, calls[c].response)]
  /\ calls' = [calls EXCEPT ![c].pc = "trim"]
  /\ UNCHANGED <<patternsTable, conversations>>

\* if len(self.conversation_history) > 20, and the return when it is not
CheckLength(c) ==
  /\ calls[c].pc = "trim"
  /\ calls' = [calls EXCEPT ![c].pc =
                 IF Len(bots[calls[c].bot].conversation_history) > HistoryLimit
                   THEN "slice" ELSE "done"]
  /\ UNCHANGED <<patternsTable, conversations, bots>>

\* self.conversation_history[-20:], a new list
Slice(c) ==
  /\ calls[c].pc = "slice"
  /\ calls' = [calls EXCEPT ![c].pc = "assign",
                            ![c].slice = LastN(bots[calls[c].bot].conversation_history,
                                               HistoryLimit)]
  /\ UNCHANGED <<patternsTable, conversations, bots>>

\* self.conversation_history = (the new list), and the return
Assign(c) ==
  /\ calls[c].pc = "assign"
  /\ bots' = [bots EXCEPT ![calls[c].bot].conversation_history = calls[c].slice]
  /\ calls' = [calls EXCEPT ![c].pc = "done", ![c].slice = <<>>]
  /\ UNCHANGED <<patternsTable, conversations>>

ConcMessages == {"hi", "2+3", "chat history", "clear history", "stats", "\\ud800"}

NextConc ==
  \/ \E c \in Callers, b \in Bots, m \in ConcMessages : ConcSend(c, b, m)
  \/ \E c \in Callers, now \in Clock : Dispatch(c, now)
  \/ \E c \in Callers : Render(c)
  \/ \E c \in Callers : Count(c)
  \/ \E c \in Callers, tie \in Ties : Average(c, tie)
  \/ \E c \in Callers : Unique(c)
  \/ \E c \in Callers : Learn(c)
  \/ \E c \in Callers : AppendRing(c)
  \/ \E c \in Callers : CheckLength(c)
  \/ \E c \in Callers : Slice(c)
  \/ \E c \in Callers : Assign(c)

SpecConc == InitConc /\ [][NextConc]_vars

----------------------------------------------------------------------------
(* Concurrent calls on one shared object: the callers send only messages   *)
(* that reach the matcher, all to bot 1, and nothing clears the ring.      *)

SharedMessages == {"hi", "2+3"}

NextShared ==
  \/ \E c \in Callers, m \in SharedMessages : ConcSend(c, 1, m)
  \/ \E c \in Callers, now \in Clock : Dispatch(c, now)
  \/ \E c \in Callers : Learn(c)
  \/ \E c \in Callers : AppendRing(c)
  \/ \E c \in Callers : CheckLength(c)
  \/ \E c \in Callers : Slice(c)
  \/ \E c \in Callers : Assign(c)

SpecShared == InitConc /\ [][NextShared]_vars

----------------------------------------------------------------------------
(* Statistics during writes: on a bot whose log is still empty, callers    *)
(* ask for the statistics while others send messages that are logged.      *)

SnapMessages == {"hi", "2+3", "stats"}

SnapSend(c, m) ==
  /\ Logged(m) => Len(conversations) + Pending < MaxSnapLog
  /\ Call(c, 1, m)

NextSnap ==
  \/ \E c \in Callers, m \in SnapMessages : SnapSend(c, m)
  \/ \E c \in Callers, now \in Clock : Dispatch(c, now)
  \/ \E c \in Callers : Count(c)
  \/ \E c \in Callers, tie \in Ties : Average(c, tie)
  \/ \E c \in Callers : Unique(c)
  \/ \E c \in Callers : Learn(c)
  \/ \E c \in Callers : AppendRing(c)
  \/ \E c \in Callers : CheckLength(c)

SpecSnap == InitRing /\ [][NextSnap]_vars

----------------------------------------------------------------------------
(* Properties *)

Ring(b) == bots[b].conversation_history

\* the command keywords, and those each message holds, letter case aside
Keywords == {"conversation history", "chat history", "clear history", "stats", "statistics"}

KeywordTable ==
  [m \in DOMAIN Chars |-> {k \in Keywords : Contains(Chars[k], StrLower(Chars[m]))}]

HasText(m, keyword) == keyword \in KeywordTable[m]

Blank(m) == \A i \in 1..Len(Chars[m]) : IsSpace(Chars[m][i])

HistoryWord(m) == HasText(m, "conversation history") \/ HasText(m, "chat history")

ClearWord(m) == HasText(m, "clear history")

StatsWord(m) == HasText(m, "stats") \/ HasText(m, "statistics")

\* a message that no command check intercepts
Plain(m) == ~Blank(m) /\ ~HistoryWord(m) /\ ~ClearWord(m) /\ ~StatsWord(m)

\* the step in which the call of caller c returns
Returns(c) == calls[c].pc # "done" /\ calls'[c].pc = "done"

Min(a, b) == IF a < b THEN a ELSE b

\* C1: whenever a get_response call has returned, whatever calls came
\* before it, the ring of the bot it was sent to holds at most 20 entries.
C1_HistoryBounded ==
  \A c \in Callers :
    calls[c].pc = "done" => Len(Ring(calls[c].bot)) <= HistoryLimit

\* the 21st and later logged calls have returned, and the ring is full
C1_Witness ==
  /\ calls[1].pc = "done" /\ calls[1].path = "matcher"
  /\ Len(conversations) > HistoryLimit
  /\ Len(Ring(1)) = HistoryLimit

\* the ring is the (input, response) pairs of the most recent logged calls,
\* in call order
C2_RingIsLatestCalls ==
  LET h == Ring(1)
      n == Len(conversations)
      k == Len(h)
  IN  /\ k <= n
      /\ \A i \in 1..k : h[i] = <<conversations[n - k + i].user_input,
                                   conversations[n - k + i].bot_response>>

\* the returning call of c puts its (input, response) pair last in the ring,
\* which gets one longer up to 20
EntersRing(c) ==
  /\ Len(Ring(1)') = Min(Len(Ring(1)) + 1, HistoryLimit)
  /\ Ring(1)'[Len(Ring(1)')] = <<calls[c].message, calls'[c].response>>

\* the returning call of c wrote its exchange to the log
WroteLog(c) == Len(conversations') = Len(conversations) + 1

\* C2 as claimed: every call that no command intercepts enters the ring, so
\* after n of them since construction or a clear the ring is the last
\* min(n, 20) of them.
C2_EveryCallEnters ==
  /\ []C2_RingIsLatestCalls
  /\ [][\A c \in Callers : Returns(c) /\ Plain(calls[c].message) => EntersRing(c)]_vars

\* C2: eviction is FIFO.  The ring is at every moment the (input, response)
\* pairs of the most recent logged calls, in call order; a call that no
\* command intercepts and that wrote its exchange to the log enters the ring,
\* which gets one longer up to 20, and one whose write raised leaves the ring
\* as it was.  So after n logged calls since construction or a clear the ring
\* is the last min(n, 20) of them.
C2_Fifo ==
  /\ []C2_RingIsLatestCalls
  /\ [][\A c \in Callers :
          Returns(c) /\ Plain(calls[c].message) =>
            IF WroteLog(c) THEN EntersRing(c) ELSE Ring(1)' = Ring(1)]_vars

\* 21 calls and no clear: the ring is calls 2..21, the first call evicted
C2_Witness ==
  /\ calls[1].pc = "done"
  /\ Len(conversations) = HistoryLimit + 1
  /\ conversations[1].user_input = "xyz"
  /\ Len(Ring(1)) = HistoryLimit
  /\ \A i \in 1..HistoryLimit : Ring(1)[i][1] = Filler

\* the reply is a non-empty string
NonEmpty(response) == \E i \in 1..Len(response) : response[i] # ""

\* the returning call of c appended exactly one Exchange to the log: the raw
\* message, the reply it returns and the confidence of the matcher, whose
\* reply is the one returned
LogsOneExchange(c) ==
  \E now \in Clock :
    \E m \in {FindBestResponse(bots[calls[c].bot].patterns, calls[c].message, now)} :
      /\ calls'[c].response = m.response
      /\ conversations' =
           Append(conversations, Exchange(calls[c].message, calls'[c].response, m.confidence))

\* C3 as claimed: every call with a non-empty input that no command keyword
\* intercepts returns a non-empty string and appends exactly one Exchange.
C3_EveryCallLogged ==
  [][\A c \in Callers :
       Returns(c) /\ Plain(calls[c].message) =>
         NonEmpty(calls'[c].response) /\ LogsOneExchange(c)]_vars

\* C3: every call with a non-empty input that no command keyword intercepts
\* returns a non-empty string.  When the input can be written to the log
\* the call appends exactly one Exchange, carrying the raw input, the reply
\* returned and the confidence of the matcher (math, time and date replies
\* too); when the write raises (the input holds a surrogate code point) the
\* call returns the error text and the log is as it was.
C3_StorableCallLogged ==
  [][\A c \in Callers :
       Returns(c) /\ Plain(calls[c].message) =>
         /\ NonEmpty(calls'[c].response)
         /\ IF Storable(Chars[calls[c].message])
              THEN LogsOneExchange(c)
              ELSE /\ conversations' = conversations
                   /\ calls'[c].response[1] = "I encountered an error: "]_vars

\* a math reply and a mixed-case greeting are in the log as they were sent
\* and answered, and a call whose write raised has returned
C3_Witness ==
  /\ calls[1].pc = "done" /\ calls[1].message = "\\ud800"
  /\ Len(conversations) = 2
  /\ conversations[1] = Exchange("2+3", <<"The answer is: ", "5">>, 20)
  /\ conversations[2] = Exchange("Hi", <<"Hello! How can I help you today?">>, 10)

\* the rings of all bots are as they were
RingsUnchanged == \A b \in Bots : Ring(b)' = Ring(b)

\* C4: a call answered because its input is empty or whitespace, or holds a
\* history keyword, or is answered by the "stats"/"statistics" check, leaves
\* the log and every ring as they were; the reply to the empty input is the
\* fixed prompt.
C4_CommandsLeaveState ==
  [][\A c \in Callers :
       LET m == calls[c].message
       IN  /\ (Returns(c) /\ (Blank(m) \/ HistoryWord(m) \/ (StatsWord(m) /\ ~ClearWord(m)))) =>
                conversations' = conversations /\ RingsUnchanged
           /\ (Returns(c) /\ Blank(m)) =>
                calls'[c].response = <<"Please say something! I'm here to chat with you.">>]_vars

\* the stats command has returned with exchanges in the log and in the ring
C4_Witness ==
  /\ calls[1].pc = "done" /\ calls[1].message = "Statistics"
  /\ Len(conversations) = 2 /\ Len(Ring(1)) = 2

\* C5: "clear history" empties the ring of the bot it is sent to and of no
\* other, returns "Conversation history cleared! Starting fresh.", and leaves
\* the log, and so every value of the statistics, as it was.
C5_ClearHistory ==
  [][\A c \in Callers :
       LET m == calls[c].message
       IN  (Returns(c) /\ ~Blank(m) /\ ~HistoryWord(m) /\ ClearWord(m)) =>
             /\ Ring(calls[c].bot)' = <<>>
             /\ \A b \in Bots \ {calls[c].bot} : Ring(b)' = Ring(b)
             /\ calls'[c].response = <<"Conversation history cleared! Starting fresh.">>
             /\ conversations' = conversations
             /\ \A tie \in Ties : GetConversationStats(conversations', tie)
                                    = GetConversationStats(conversations, tie)]_vars

\* a clear has returned on bot 1: its ring is empty, the ring of bot 2 and
\* the log are not
C5_Witness ==
  /\ calls[1].pc = "done" /\ calls[1].message = "clear history" /\ calls[1].bot = 1
  /\ Ring(1) = <<>> /\ Ring(2) # <<>>
  /\ Len(conversations) = 2

\* the reply is one of the history command
IsHistoryReply(response) ==
  response[1] \in {"Here are our recent exchanges:\n\n",
                   "We haven't chatted yet! This is our first conversation."}

\* the reply is one of the math, time or date handlers
IsHandlerReply(response) ==
  response[1] \in {"The answer is: ", "The current time is ", "Today is ",
                   "Oops! Division by zero is not allowed.",
                   "I couldn't solve that math problem. Please check your expression.",
                   "I can only handle basic math with +, -, *, / and parentheses."}

\* C6: the checks run in the order empty, history, clear, stats, matcher, on
\* the text with letter case set aside, and the first that matches decides:
\* a message with a history keyword gets the history reply and clears
\* nothing, whatever else it holds; one with "clear history" and no history
\* keyword clears, whatever else it holds; one with a stats keyword alone
\* gets the statistics; and a message with any command keyword is not
\* answered by the math, time or date handler and is not logged.
C6_FirstCheckDecides ==
  [][\A c \in Callers :
       LET m == calls[c].message
           reply == calls'[c].response
       IN  (Returns(c) /\ ~Blank(m)) =>
             /\ HistoryWord(m) => IsHistoryReply(reply) /\ RingsUnchanged
             /\ (~HistoryWord(m) /\ ClearWord(m)) =>
                  /\ reply = <<"Conversation history cleared! Starting fresh.">>
                  /\ Ring(calls[c].bot)' = <<>>
             /\ (~HistoryWord(m) /\ ~ClearWord(m) /\ StatsWord(m)) =>
                  reply[1] = "Chat Statistics:\n* Total conversations: "
             /\ (HistoryWord(m) \/ ClearWord(m) \/ StatsWord(m)) =>
                  ~IsHandlerReply(reply) /\ conversations' = conversations]_vars

\* a message with a history keyword and "clear history" has been answered on
\* a ring that holds entries, and the ring still holds them
C6_Witness ==
  /\ calls[1].pc = "done" /\ calls[1].message = "chat history clear history"
  /\ IsHistoryReply(calls[1].response)
  /\ Len(Ring(1)) = 2

\* C8: once a constructor has returned, the patterns table is the 13 seed
\* rows, however many constructors have run one after another on the store.
C8_SeededOnce ==
  (\E b \in Bots : Ready(b)) =>
     patternsTable = InitialPatterns /\ Len(patternsTable) = SeedCount

\* every bot has been constructed, one after another
C8_Witness == \A b \in Bots : Ready(b)

\* C7: the history command answers "We haven't chatted yet! ..." on an empty
\* ring, and otherwise the header followed by the last min(k, 3) entries of
\* the ring, oldest first, each as "You: {q}\nMe: {a}", joined by "\n".
C7_HistoryView ==
  \A c \in Callers :
    (calls[c].pc = "done" /\ ~Blank(calls[c].message) /\ HistoryWord(calls[c].message)) =>
      LET h == Ring(calls[c].bot)
          k == Len(h)
          E(i) == <<"You: ", h[i][1], "\nMe: ">> \o h[i][2]
          header == <<"Here are our recent exchanges:\n\n">>
      IN  calls[c].response =
            CASE k = 0 -> <<"We haven't chatted yet! This is our first conversation.">>
              [] k = 1 -> header \o E(1)
              [] k = 2 -> header \o E(1) \o <<"\n">> \o E(2)
              [] OTHER -> header \o E(k - 2) \o <<"\n">> \o E(k - 1) \o <<"\n">> \o E(k)

\* the history command has returned on a ring of more than three entries
\* whose last three are not its first three
C7_Witness ==
  /\ calls[1].pc = "done" /\ calls[1].message = "chat history"
  /\ Len(Ring(1)) > HistoryShown
  /\ Ring(1)[1][1] # Ring(1)[Len(Ring(1))][1]

\* C9 as claimed: when every constructor has returned, whatever the
\* interleaving of their emptiness checks and their seed inserts, the
\* patterns table is the 13 seed rows.
C9_RaceSeedsOnce ==
  (\A b \in Bots : Ready(b)) =>
     patternsTable = InitialPatterns /\ Len(patternsTable) = SeedCount

\* the exchange of the call of c: its input, its reply and its confidence
Own(c) == Exchange(calls[c].message, calls[c].response, calls[c].confidence)

\* the call of c has written to the log
HasWritten(c) ==
  \/ calls[c].pc \in {"append", "trim", "slice", "assign"}
  \/ calls[c].pc = "done" /\ calls[c].path = "matcher"

\* the step is the write of caller c to the log
Writes(c) == calls[c].pc = "learn" /\ calls'[c].pc = "append"

\* C10: under every interleaving of concurrent calls, on one bot or on
\* several, the log changes only by the write of one call, which appends
\* exactly one row holding that call's own input, reply and confidence; the
\* row of every call that has written is in the log, and the reply the call
\* returns is the one in its row.
C10_LogWrites ==
  /\ [](\A c \in Callers :
          HasWritten(c) => \E i \in 1..Len(conversations) : conversations[i] = Own(c))
  /\ [][/\ \A c \in Callers :
            Writes(c) => conversations' = Append(conversations, Own(c)) /\ Own(c)' = Own(c)
        /\ conversations' # conversations =>
             \E c \in Callers :
               /\ Writes(c)
               /\ \A d \in Callers \ {c} : calls'[d] = calls[d]
        /\ \A c \in Callers :
             calls[c].pc \in {"append", "trim", "slice", "assign"} => Own(c)' = Own(c)]_vars

\* two calls on the same bot were under way together, both have written, and
\* the log holds the row of each: the second caller's first
C10_Witness ==
  /\ calls[1].bot = 1 /\ calls[2].bot = 1
  /\ calls[1].message = "hi" /\ calls[2].message = "2+3"
  /\ calls[1].pc = "slice" /\ calls[2].pc = "assign"
  /\ Len(conversations) = HistoryLimit + 2
  /\ conversations[HistoryLimit + 1] = Own(2)
  /\ conversations[HistoryLimit + 2] = Own(1)

\* C11 as claimed: under every interleaving of concurrent calls, at the
\* moment a call returns the ring of its bot holds at most 20 entries.
C11_BoundedAtReturn ==
  [][\A c \in Callers :
       Returns(c) => Len(Ring(calls[c].bot))' <= HistoryLimit]_vars

\* every call has returned
Quiet == \A c \in Callers : calls[c].pc \in {"idle", "done"}

\* the (input, response) pairs of the rows of a log, in the order of the rows
Pairs(log) == [i \in 1..Len(log) |-> <<log[i].user_input, log[i].bot_response>>]

\* C12 as claimed: under every interleaving of concurrent non-command calls
\* on one bot with no clear, once all calls have returned the ring holds the
\* entries of the most recent min(n, 20) calls, once each, in the order of
\* their rows in the log.
C12_NoEntryLost ==
  Quiet => Ring(1) = Pairs(LastN(conversations, Min(Len(conversations), HistoryLimit)))

\* the call of c runs a statement on the store: the SELECTs of the stats
\* command or the INSERT of a message that no command check intercepts
UsesStore(c) ==
  LET m == calls[c].message
  IN  ~Blank(m) /\ ~HistoryWord(m) /\ ~ClearWord(m)

\* str(e) of the exception that escapes to the except clause in the call of
\* c, <<>> when none does
Escaping(c) ==
  LET m == calls[c].message
  IN  IF Plain(m) /\ ~Storable(Chars[m]) THEN EncodeError(Chars[m])
      ELSE IF UsesStore(c) /\ calls[c].fault # "ok" THEN <<calls[c].fault>>
      ELSE <<>>

\* C13: whatever the input and whether the store works or not, a call
\* returns a text and raises nothing; when a failure escapes the inner
\* handlers the text is "I encountered an error: {message}. Please try
\* rephrasing your message.", and a failure of the evaluator is answered by
\* handle_math and does not escape.
C13_NeverRaises ==
  [][\A c \in Callers :
       Returns(c) =>
         /\ calls'[c].path # "raise"
         /\ calls'[c].response # <<>>
         /\ Escaping(c) # <<>> =>
              calls'[c].response = <<"I encountered an error: ">> \o Escaping(c)
                                   \o <<". Please try rephrasing your message.">>
         /\ (Escaping(c) = <<>> /\ calls[c].message \in {"5 / 0", "(2+3"}) =>
              calls'[c].response \in
                {<<"Oops! Division by zero is not allowed.">>,
                 <<"I couldn't solve that math problem. Please check your expression.">>}]_vars

\* the SELECT of a stats call raised, after an exchange was logged, and the
\* call returned the error text
C13_Witness ==
  /\ calls[1].pc = "done" /\ calls[1].message = "stats"
  /\ calls[1].fault = "database is locked"
  /\ calls[1].response = ErrorView(<<"database is locked">>)
  /\ Len(conversations) = 1

\* C14: a non-command call whose log write fails returns the error text and
\* leaves the log and the ring as they were, so nothing was retried; and a
\* call made while the store works is answered from the ring, the log and
\* its message alone, so that a failed call before it changes nothing.
C14_FailureIsTerminal ==
  [][\A c \in Callers :
       /\ (Returns(c) /\ Plain(calls[c].message) /\ Escaping(c) # <<>>) =>
            /\ calls'[c].response = ErrorView(Escaping(c))
            /\ conversations' = conversations
            /\ bots' = bots
       /\ (Returns(c) /\ calls[c].fault = "ok") =>
            \E now \in Clock, tie \in Ties :
              \E out \in {Respond(bots[calls[c].bot].patterns, Ring(calls[c].bot),
                                  conversations, calls[c].message, now, tie)} :
                /\ calls'[c].response = out.response
                /\ conversations' = out.log
                /\ Ring(calls[c].bot)' = out.history]_vars

\* the write of a call failed on a store out of order, after two exchanges
\* were logged and put in the ring: the log and the ring still hold the two
C14_Witness ==
  /\ calls[1].pc = "done" /\ calls[1].message = "hi"
  /\ calls[1].fault = "disk I/O error"
  /\ calls[1].response = ErrorView(<<"disk I/O error">>)
  /\ Len(conversations) = MaxFaultLog /\ Len(Ring(1)) = MaxFaultLog

\* the value v, in hundredths, is the mean of the confidences of the log
\* rounded to 2 decimals (0 for an empty log): it lies within half a
\* hundredth of the mean
IsRoundedMean(v, log) ==
  IF log = <<>> THEN v = 0
  ELSE Abs(2 * Len(log) * v - 20 * SumConfidence(log)) <= Len(log)

\* C15: the reply of every stats call, on whichever bot and whatever was
\* cleared, shows the number N of rows of the whole log, the mean of their N
\* confidences rounded to 2 decimals (0.0 when N = 0), and the number of
\* distinct user_input texts, "Hi" and "hi" being two.
C15_StatsOverLog ==
  [][\A c \in Callers :
       (Returns(c) /\ calls'[c].path = "stats") =>
          \E v \in 0..200 :
            /\ IsRoundedMean(v, conversations)
            /\ calls'[c].response =
                 StatsView([total_conversations |-> Len(conversations),
                            average_confidence |-> v,
                            unique_inputs |->
                              Cardinality({conversations[i].user_input :
                                             i \in 1..Len(conversations)})])]_vars

\* a stats call has returned on the last bot, whose ring is empty, and the log
\* holds the rows of calls answered by bot 1, "Hi" and "hi" among them,
\* whose mean confidence is not a whole number of hundredths
C15_Witness ==
  /\ calls[1].pc = "done" /\ calls[1].path = "stats" /\ calls[1].bot = NumBots
  /\ Ring(NumBots) = <<>> /\ Len(Ring(1)) = Len(conversations)
  /\ {"hi", "Hi"} \subseteq {conversations[i].user_input : i \in 1..Len(conversations)}
  /\ (10 * SumConfidence(conversations)) % Len(conversations) # 0

\* messages made of words and then an expression a op b, and the value of
\* the expression
Phrases == ("What is 2 + 3?" :> 5) @@ ("What is 15 + 27?" :> 42)

\* C16 as claimed: a call whose message is words followed by an expression
\* a op b ('What is 2 + 3?', 'What is 15 + 27?') returns "The answer is: "
\* followed by the value of the expression, with confidence 2.0.
C16_PhraseIsComputed ==
  [][Returns(1) /\ calls[1].message \in DOMAIN Phrases =>
       /\ calls'[1].response = <<"The answer is: ", ToString(Phrases[calls[1].message])>>
       /\ calls'[1].confidence = 20]_vars

\* the input of the direct call of handle_math by c is a term
OnTerm(c) == calls[c].pc = "solved" /\ calls[c].math.input.shape # "text"

\* a op b for whole numbers
Op(op, a, b) ==
  CASE op = "+" -> a + b
    [] op = "-" -> a - b
    [] op = "*" -> a * b

\* the value of a term without division: * before + and -, operators of
\* one rank from the left, and what is in parentheses first
Value(t) ==
  CASE t.shape = "ab" -> Op(t.op1, t.a, t.b)
    [] t.shape = "abc" ->
         IF t.op2 = "*" /\ t.op1 # "*"
           THEN Op(t.op1, t.a, t.b * t.c)
           ELSE Op(t.op2, Op(t.op1, t.a, t.b), t.c)
    [] t.shape = "(ab)c" -> Op(t.op2, Op(t.op1, t.a, t.b), t.c)
    [] t.shape = "a(bc)" -> Op(t.op1, t.a, Op(t.op2, t.b, t.c))

\* C17: for every term over the numbers with +, - and * and parentheses,
\* written with or without blanks, handle_math returns "The answer is: " and
\* the value with * binding tighter than + and - and parentheses first.
C17_Precedence ==
  \A c \in Callers :
    (OnTerm(c) /\ {calls[c].math.input.op1, calls[c].math.input.op2} \subseteq {"+", "-", "*"}) =>
       calls[c].response = <<"The answer is: ", ToString(Value(calls[c].math.input))>>

\* handle_math has answered "4 + 9 * 16" with 148
C17_Witness ==
  /\ calls[1].pc = "solved"
  /\ calls[1].math.expression = <<"4", " ", "+", " ", "9", " ", "*", " ", "1", "6">>
  /\ calls[1].response = <<"The answer is: ", "148">>

\* evaluating the term divides by zero: the divisor of a division is the
\* number 0, or in a op1 (b op2 c) the part in parentheses is worth 0
DividesByZero(t) ==
  CASE t.shape = "ab" -> t.op1 = "/" /\ t.b = 0
    [] t.shape \in {"abc", "(ab)c"} ->
         (t.op1 = "/" /\ t.b = 0) \/ (t.op2 = "/" /\ t.c = 0)
    [] t.shape = "a(bc)" ->
         \/ t.op2 = "/" /\ t.c = 0
         \/ t.op1 = "/" /\ (IF t.op2 = "/" THEN t.b = 0 ELSE Op(t.op2, t.b, t.c) = 0)

\* C18: when evaluating a term divides by zero in any of its parts,
\* handle_math returns "Oops! Division by zero is not allowed."; and a
\* get_response call that returns this text has logged the exchange with
\* confidence 2.0 and put it in the ring like any other turn.
C18_DivisionByZero ==
  /\ [](\A c \in Callers :
          (OnTerm(c) /\ DividesByZero(calls[c].math.input)) =>
             calls[c].response = <<"Oops! Division by zero is not allowed.">>)
  /\ [][\A c \in Callers :
          (Returns(c) /\ calls'[c].response = <<"Oops! Division by zero is not allowed.">>) =>
             /\ conversations' =
                  Append(conversations,
                         Exchange(calls[c].message,
                                  <<"Oops! Division by zero is not allowed.">>, 20))
             /\ Ring(calls[c].bot)' =
                  Append(Ring(calls[c].bot),
                         <<calls[c].message, <<"Oops! Division by zero is not allowed.">> >>)]_vars

\* get_response has answered "5 / 0", the second turn of the conversation,
\* and the log and the ring end with the exchange
C18_Witness ==
  /\ calls[1].pc = "done" /\ calls[1].message = "5 / 0"
  /\ Len(conversations) = 2 /\ Len(Ring(1)) = 2
  /\ conversations[2].bot_response = <<"Oops! Division by zero is not allowed.">>
  /\ conversations[2].confidence = 20
  /\ Ring(1)[2] = <<"5 / 0", <<"Oops! Division by zero is not allowed.">> >>

\* the characters 0-9 + - * / ( ) .
Whitelist == {"0", "1", "2", "3", "4", "5", "6", "7", "8", "9",
              "+", "-", "*", "/", "(", ")", "."}

\* digits with at most one point among them
IsNumeral(s) ==
  /\ \A i \in 1..Len(s) : s[i] \in Whitelist \ {"+", "-", "*", "/", "(", ")"}
  /\ Cardinality({i \in 1..Len(s) : s[i] = "."}) <= 1
  /\ \E i \in 1..Len(s) : s[i] # "."

\* s is an arithmetic expression: a numeral, an expression in parentheses,
\* an expression with a sign, or two expressions with an operator between
\* them (+ - * /, and ** and // as well)
RECURSIVE WellFormed(_)
WellFormed(s) ==
  \/ IsNumeral(s)
  \/ /\ Len(s) >= 3 /\ s[1] = "(" /\ s[Len(s)] = ")"
     /\ \E inner \in {SubSeq(s, 2, Len(s) - 1)} : WellFormed(inner)
  \/ /\ Len(s) >= 2 /\ s[1] \in {"+", "-"}
     /\ \E rest \in {Tail(s)} : WellFormed(rest)
  \/ \E i \in 2..(Len(s) - 1), n \in {1, 2} :
       /\ i + n <= Len(s)
       /\ SubSeq(s, i, i + n - 1) \in {<<"+">>, <<"-">>, <<"*">>, <<"/">>, <<"*", "*">>, <<"/", "/">>}
       /\ \E left \in {SubSeq(s, 1, i - 1)} : WellFormed(left)
       /\ \E right \in {SubSeq(s, i + n, Len(s))} : WellFormed(right)

\* C19 as claimed: for every text of the characters 0-9 + - * / ( ) . that
\* is not a well-formed arithmetic expression, handle_math returns "I
\* couldn't solve that math problem. Please check your expression.".
C19_MalformedRefused ==
  \A c \in Callers :
    (/\ calls[c].pc = "solved"
     /\ calls[c].math.input.shape = "text"
     /\ \A i \in 1..Len(calls[c].math.expression) : calls[c].math.expression[i] \in Whitelist
     /\ ~WellFormed(calls[c].math.expression)) =>
       calls[c].response =
         <<"I couldn't solve that math problem. Please check your expression.">>

\* C20 as claimed: the text that handle_math hands to eval consists only of
\* the ASCII characters 0-9 + - * / ( ) and '.'.
C20_OnlyWhitelistEvaluated ==
  \A c \in Callers :
    calls[c].pc = "solved" =>
      \A i \in 1..Len(calls[c].math.evaluated) : calls[c].math.evaluated[i] \in Whitelist

\* the categories whose reply a handler computes
Special == {"math", "time", "date"}

\* no pattern of a special category in patterns matches the message
Ordinary(patterns, message) ==
  \A k \in 1..Len(patterns) :
    patterns[k].category \in Special => ~Matches(patterns[k].pattern, message)

\* the rows of a weight, in their order
OfWeight(rows, w) == SelectSeq(rows, LAMBDA row : row.weight = w)

\* place k of patterns holds the first of the heaviest patterns with a reply
\* that match the message
FirstOfHeaviest(patterns, message, k) ==
  LET matched == {j \in 1..Len(patterns) :
                    Matches(patterns[j].pattern, message) /\ patterns[j].response # ""}
  IN  /\ k \in matched
      /\ \A j \in matched : patterns[j].weight <= patterns[k].weight
      /\ \A j \in matched : patterns[j].weight = patterns[k].weight => k <= j

\* C21: the patterns of a constructed bot are the rows of the store by
\* falling weight, the rows of one weight in the order of their registration;
\* and a call that reaches the matcher with a message that matches no math,
\* time or date pattern returns the reply and the weight of the heaviest
\* pattern that matches, the first in load order among those of equal weight.
C21_FirstOfHeaviestWins ==
  /\ [](\A b \in Bots : Ready(b) =>
          LET patterns == bots[b].patterns
          IN  /\ Len(patterns) = Len(patternsTable)
              /\ \A i, j \in 1..Len(patterns) :
                   i < j => patterns[i].weight >= patterns[j].weight
              /\ \A w \in {1, 10, 20} :
                   OfWeight(patterns, w) = OfWeight(patternsTable, w))
  /\ [][\A c \in Callers :
          (/\ Returns(c) /\ calls'[c].path = "matcher"
           /\ Ordinary(bots[calls[c].bot].patterns, calls[c].message)) =>
             \E k \in 1..Len(bots[calls[c].bot].patterns) :
               /\ FirstOfHeaviest(bots[calls[c].bot].patterns, calls[c].message, k)
               /\ calls'[c].response = <<bots[calls[c].bot].patterns[k].response>>
               /\ calls'[c].confidence = bots[calls[c].bot].patterns[k].weight]_vars

\* on a store seeded twice, a message with a word of gratitude and then a
\* greeting was answered with the greeting, and one with a farewell and
\* then a word of gratitude was answered before it with the thanks
C21_Witness ==
  /\ Len(bots[1].patterns) = 2 * SeedCount
  /\ calls[1].pc = "done" /\ calls[1].message = "thanks hi"
  /\ calls[1].response = <<"Hello! How can I help you today?">>
  /\ calls[1].confidence = 10
  /\ Len(conversations) = 2
  /\ conversations[1] =
       Exchange("bye thanks", <<"You're welcome! Is there anything else I can help you with?">>, 10)

\* what the handler of a special category returns for the message, the
\* clock reading now
HandlerReply(category, message, now) ==
  CASE category = "math" -> HandleMath(MathExpr(Normalize(message)))
    [] category = "time" -> HandleTimeQuery(now)
    [] category = "date" -> HandleDateQuery(now)

\* place k of patterns holds the first math, time or date pattern that
\* matches the message
FirstSpecial(patterns, message, k) ==
  /\ patterns[k].category \in Special /\ Matches(patterns[k].pattern, message)
  /\ \A j \in 1..(k - 1) :
       patterns[j].category \in Special => ~Matches(patterns[j].pattern, message)

\* C22: a call that reaches the matcher with a message that matches a math,
\* time or date pattern returns what the handler of the first such pattern
\* in load order computes, with that pattern's weight, 2.0, as confidence,
\* whatever other patterns match; the reply is never the empty stored text.
C22_SpecialShortCircuits ==
  [][\A c \in Callers :
       (/\ Returns(c) /\ calls'[c].path = "matcher"
        /\ ~Ordinary(bots[calls[c].bot].patterns, calls[c].message)) =>
          \E k \in 1..Len(bots[calls[c].bot].patterns) :
            LET info == bots[calls[c].bot].patterns[k]
            IN  /\ FirstSpecial(bots[calls[c].bot].patterns, calls[c].message, k)
                /\ \E now \in Clock :
                     calls'[c].response = HandlerReply(info.category, calls[c].message, now)
                /\ calls'[c].confidence = info.weight
                /\ calls'[c].confidence = 20
                /\ calls'[c].response \notin {<<>>, <<"">>}
                /\ conversations' =
                     Append(conversations,
                            Exchange(calls[c].message, calls'[c].response, 20))]_vars

\* a message with a word of gratitude and a date word was answered with the
\* date, after one with a date word and a sum was answered with the sum
C22_Witness ==
  /\ calls[1].pc = "done" /\ calls[1].message = "thanks today"
  /\ calls[1].response \in {HandleDateQuery(now) : now \in Clock}
  /\ calls[1].confidence = 20
  /\ Len(conversations) = 2
  /\ conversations[1] = Exchange("today 2+3", <<"The answer is: ", "5">>, 20)

\* the text of the catch-all pattern, the last of the seed list
CatchAllText == InitialPatterns[SeedCount].response

\* the message matches no pattern of weight 1.0 or more
OnlyCatchAll(patterns, message) ==
  \A k \in 1..Len(patterns) :
    patterns[k].weight >= 10 => ~Matches(patterns[k].pattern, message)

\* C23: a call that reaches the matcher with a message that matches no math,
\* time or date pattern and no pattern of weight 1.0 returns the text of the
\* seeded catch-all pattern with confidence 0.1; and no call returns the
\* literal "I'm not sure how to respond to that." or, from the matcher, the
\* confidence 0.0.
C23_CatchAllAnswers ==
  [][\A c \in Callers :
       (Returns(c) /\ calls'[c].path = "matcher") =>
          /\ OnlyCatchAll(bots[calls[c].bot].patterns, calls[c].message) =>
               /\ calls'[c].response = <<CatchAllText>>
               /\ calls'[c].confidence = 1
          /\ calls'[c].response # <<"I'm not sure how to respond to that.">>
          /\ calls'[c].confidence # 0]_vars

\* a message that matches nothing but the catch-all pattern was answered
\* with its text and logged with confidence 0.1
C23_Witness ==
  /\ calls[1].pc = "done" /\ calls[1].message = "xyz"
  /\ calls[1].response = <<CatchAllText>>
  /\ conversations # <<>>
  /\ conversations[Len(conversations)] = Exchange("xyz", <<CatchAllText>>, 1)

\* the largest weight of the seed list
WeightMax ==
  CHOOSE w \in {InitialPatterns[k].weight : k \in 1..SeedCount} :
    \A k \in 1..SeedCount : InitialPatterns[k].weight <= w

\* C24: the confidence of every row of the conversations table lies between
\* 0.0 and the largest weight of the seed list, which is 2.0.
C24_ConfidenceInRange ==
  /\ WeightMax = 20
  /\ \A i \in 1..Len(conversations) :
       conversations[i].confidence >= 0 /\ conversations[i].confidence <= WeightMax

\* the log holds a row of the largest confidence and one of the smallest
\* that the seed list gives
C24_Witness ==
  /\ Len(conversations) = 2
  /\ conversations[1].confidence = 20 /\ conversations[2].confidence = 1
  /\ calls[1].pc = "done" /\ calls[1].path = "matcher"

\* C25: no step of a constructor or of a call, on whichever bot, removes a
\* row of the conversations table or changes the input, the reply or the
\* confidence of a row that is there.
C25_LogAppendOnly ==
  [][/\ Len(conversations') >= Len(conversations)
     /\ \A i \in 1..Len(conversations) : conversations'[i] = conversations[i]]_vars

\* the log is full, its rows written through the first bot, and a clear
\* command has returned on the last bot, constructed after the first
C25_Witness ==
  /\ Len(conversations) = MaxLog
  /\ Len(Ring(1)) = MaxLog
  /\ Ready(NumBots)
  /\ calls[1].pc = "done" /\ calls[1].path = "clear" /\ calls[1].bot = NumBots

\* the replies of handle_math that refuse an expression
Refusals ==
  {<<"I can only handle basic math with +, -, *, / and parentheses.">>,
   <<"I couldn't solve that math problem. Please check your expression.">>}

\* C26 as claimed, for the guard that refuses least: of the texts a caller
\* gives to handle_math, those of the greatest length, MaxTextLen, are
\* refused with a fixed message and not handed to eval, whatever a guard
\* does with the shorter ones.
C26_LongestRefused ==
  \A c \in Callers :
    (/\ calls[c].pc = "solved"
     /\ calls[c].math.input.shape = "text"
     /\ Len(calls[c].math.expression) = MaxTextLen) =>
       /\ calls[c].math.evaluated = <<>>
       /\ calls[c].response \in Refusals

\* the sequence short is the end of the sequence long
IsSuffix(short, long) ==
  /\ Len(short) <= Len(long)
  /\ short = SubSeq(long, Len(long) - Len(short) + 1, Len(long))

\* C27: with one bot called sequentially, whether the store works or fails
\* during a call, the entries of the ring are the (input, response) pairs
\* of the newest rows of the log, in the order of the rows: the ring holds
\* no exchange that the log lacks.
C27_RingWithinLog ==
  /\ IsSuffix(Ring(1), Pairs(conversations))
  /\ \A i \in 1..Len(Ring(1)) :
       \E j \in 1..Len(conversations) :
         /\ conversations[j].user_input = Ring(1)[i][1]
         /\ conversations[j].bot_response = Ring(1)[i][2]

\* a sum was asked while the database was locked, after a greeting had been
\* logged and put in the ring: the ring and the log hold the greeting alone
C27_Witness ==
  /\ calls[1].pc = "done" /\ calls[1].message = "2+3"
  /\ calls[1].fault = "database is locked" /\ calls[1].path = "error"
  /\ Len(conversations) = 1 /\ conversations[1].user_input = "hi"
  /\ Len(Ring(1)) = 1 /\ Ring(1)[1][1] = "hi"

\* the reply of a stats command that reports the log as it was when it had
\* its first n rows
ReportsRows(response, log, n) ==
  \E v \in 0..200 :
    /\ IsRoundedMean(v, SubSeq(log, 1, n))
    /\ response = StatsView([total_conversations |-> n,
                             average_confidence |-> v,
                             unique_inputs |->
                               Cardinality({log[i].user_input : i \in 1..n})])

\* the reply of a stats command with at most as many unique questions as
\* conversations
CountsAgree(response, most) ==
  \E total \in 0..most, unique \in 0..most, v \in 0..200 :
    /\ unique <= total
    /\ response = StatsView([total_conversations |-> total,
                             average_confidence |-> v,
                             unique_inputs |-> unique])

\* C28 as claimed: the reply of every stats call, other calls writing to the
\* log meanwhile, reports the total, the average and the unique inputs of
\* the log at one moment of the call, and so at most as many unique
\* questions as conversations.
C28_StatsOfOneLog ==
  [][\A c \in Callers :
       (Returns(c) /\ calls'[c].path = "stats") =>
          /\ \E n \in 0..Len(conversations') :
               ReportsRows(calls'[c].response, conversations', n)
          /\ CountsAgree(calls'[c].response, Len(conversations'))]_vars

\* how often the row occurs in the list
Copies(patterns, row) == Cardinality({k \in 1..Len(patterns) : patterns[k] = row})

\* C29: under every interleaving of constructors on one store, the patterns
\* of a constructed bot are not empty and no partial seed: their number is
\* a positive multiple of 13, every row of the seed list is among them as
\* often as every other, and the catch-all pattern is there.
C29_WholeSeedLoaded ==
  \A b \in Bots :
    Ready(b) =>
      /\ Len(bots[b].patterns) > 0
      /\ Len(bots[b].patterns) % SeedCount = 0
      /\ \A k \in 1..SeedCount :
           Copies(bots[b].patterns, InitialPatterns[k]) = Len(bots[b].patterns) \div SeedCount
      /\ \E k \in 1..Len(bots[b].patterns) :
           bots[b].patterns[k].category = "fallback" /\ bots[b].patterns[k].pattern = AnyRe

\* two constructors both found the store empty: the first bot loaded its
\* patterns after its own seeding and before the other's, the last bot
\* after both
C29_Witness ==
  /\ Ready(1) /\ Ready(NumBots)
  /\ Len(bots[1].patterns) = SeedCount
  /\ Len(bots[NumBots].patterns) = 2 * SeedCount
  /\ Len(patternsTable) = 2 * SeedCount

\* two operator characters of the text stand side by side and make the
\* power or the floor division operator
HasDoubledOperator(expr) ==
  \E i \in 1..(Len(expr) - 1) : expr[i] = expr[i + 1] /\ expr[i] \in {"*", "/"}

\* C30 as claimed: handle_math answers a text in which "**" or "//" stands
\* with "I couldn't solve that math problem. Please check your expression.",
\* and so does get_response when the expression found in its message holds
\* one of the two.
C30_OnlyFourOperations ==
  \A c \in Callers :
    /\ (/\ calls[c].pc = "solved"
        /\ IsBasicMath(CleanExpression(calls[c].math.expression))
        /\ HasDoubledOperator(CleanExpression(calls[c].math.expression))) =>
          calls[c].response =
            <<"I couldn't solve that math problem. Please check your expression.">>
    /\ (/\ calls[c].pc = "done" /\ calls[c].path = "matcher"
        /\ HasDoubledOperator(Chars[calls[c].message])) =>
          calls[c].response =
            <<"I couldn't solve that math problem. Please check your expression.">>
====
